---------------------------- MODULE Spec2Model ----------------------------
(***************************************************************************)
(* Circuit topology analysis and DC simulation core of the circuit         *)
(* learning game: CircuitValidator.validateCircuit and                     *)
(* CircuitSimulator.simulate over caller-owned components and connections, *)
(* and the ConnectionManager that draws and stores wires.                  *)
(*                                                                         *)
(* Numbers.  The code computes with IEEE doubles; the model computes with  *)
(* exact rationals <<numerator, denominator>> in lowest terms, so rounding *)
(* error is not modelled.  Terminal keys `${componentId}:${terminalId}`    *)
(* are pairs <<componentId, terminalId>>; component ids contain no ':'     *)
(* (generateComponentId builds them as type_timestamp_random).             *)
(* JavaScript Map and Set iterate in insertion order: they are modelled as *)
(* sequences without duplicates.                                           *)
(***************************************************************************)
EXTENDS Integers, Sequences, FiniteSets, TLC

VARIABLES
  components,    \* caller-owned component objects (sequence of records)
  connections,   \* caller-owned connection list
  plan,          \* connections the caller has still to draw
  errorCounter,  \* CircuitValidator.errorCounter
  clock,         \* last value read from Date.now()
  vOut,          \* results of the validateCircuit calls made, latest last
  sOut,          \* results of the simulate calls made, latest last
  preSim,        \* the components as they were when simulate was last entered
  manager,       \* the ConnectionManager: its connections map and wireDrawingState
  terminalStatus,\* connected and connectionId of every terminal of the components
  returned,      \* the ConnectionManager call made last, and what it returned
  drawn          \* connections the ConnectionManager has created so far

boardVars == <<components, connections, plan, errorCounter, clock,
               vOut, sOut, preSim>>

managerVars == <<manager, terminalStatus, returned, drawn>>

vars == <<components, connections, plan, errorCounter, clock,
          vOut, sOut, preSim, manager, terminalStatus, returned, drawn>>

---------------------------------------------------------------------------
(* Bounds of the model. *)

\* longest component sequence whose kinds are drawn freely
MaxMixed == 2
\* longest sequence of equal components (long series loops)
MaxUniform == 8
\* largest value Date.now() takes
MaxClock == 1
\* validateCircuit and simulate calls per run, taken together
MaxCalls == 2
\* connections a ConnectionManager creates in one run
MaxDrawn == 2

---------------------------------------------------------------------------
(* Sequence helpers. *)

Range(s) == { s[i] : i \in 1..Len(s) }

Contains(s, x) == \E i \in 1..Len(s) : s[i] = x

\* Set.add / Map.set on an insertion-ordered collection
AddUnique(s, x) == IF Contains(s, x) THEN s ELSE Append(s, x)

RECURSIVE Flatten(_)
Flatten(ss) == IF ss = <<>> THEN <<>> ELSE Head(ss) \o Flatten(Tail(ss))

Reverse(s) == [i \in 1..Len(s) |-> s[Len(s) + 1 - i]]

---------------------------------------------------------------------------
(* Exact rational arithmetic standing for the code's doubles. *)

RECURSIVE GCD(_, _)
GCD(a, b) == IF b = 0 THEN a ELSE GCD(b, a % b)

Abs(n) == IF n < 0 THEN -n ELSE n

Norm(n, d) ==
  LET g == GCD(Abs(n), Abs(d))
      s == IF d < 0 THEN -1 ELSE 1
  IN  <<(s * n) \div g, (s * d) \div g>>

Rat(n) == <<n, 1>>
Zero == Rat(0)
One == Rat(1)

RAdd(a, b) == Norm(a[1] * b[2] + b[1] * a[2], a[2] * b[2])
RSub(a, b) == Norm(a[1] * b[2] - b[1] * a[2], a[2] * b[2])
RMul(a, b) == Norm(a[1] * b[1], a[2] * b[2])
\* a / b for b # 0
RDiv(a, b) == Norm(a[1] * b[2], a[2] * b[1])
RLt(a, b) == a[1] * b[2] < b[1] * a[2]
RLe(a, b) == a[1] * b[2] <= b[1] * a[2]
RMin(a, b) == IF RLt(b, a) THEN b ELSE a
RMax(a, b) == IF RLt(a, b) THEN b ELSE a

RECURSIVE RSum(_)
RSum(s) == IF s = <<>> THEN Zero ELSE RAdd(Head(s), RSum(Tail(s)))

\* a > 1/den, computed without forming a[1] * den
GtInverse(a, den) == a[1] > 0 /\ den > (a[2] \div a[1])

---------------------------------------------------------------------------
(* Components: types/electrical-components.ts. *)

\* getProperty<number>(key) || fallback: the fallback stands in for a missing
\* property and for the falsy number 0
getNumber(c, key, fallback) ==
  IF key \notin DOMAIN c.properties THEN fallback
  ELSE IF c.properties[key] = Zero THEN fallback
  ELSE c.properties[key]

DefaultResistance == 1000
DefaultVoltage == 9
DefaultForwardVoltage == 2

getResistance(c) == getNumber(c, "resistance", Rat(DefaultResistance))
getVoltage(c) == getNumber(c, "voltage", Rat(DefaultVoltage))
getForwardVoltage(c) ==
  getNumber(c, "forwardVoltage", Rat(DefaultForwardVoltage))

Terminal(id, type) == [id |-> id, type |-> type]

Resistor(id, resistance) ==
  [id |-> id, type |-> "resistor",
   properties |-> [resistance |-> resistance],
   terminals |-> <<Terminal("terminal1", "bidirectional"),
                   Terminal("terminal2", "bidirectional")>>]

Battery(id, voltage) ==
  [id |-> id, type |-> "battery",
   properties |-> [voltage |-> voltage],
   terminals |-> <<Terminal("positive", "output"),
                   Terminal("negative", "input")>>]

LED(id, forwardVoltage) ==
  [id |-> id, type |-> "led",
   properties |-> [forwardVoltage |-> forwardVoltage, isLit |-> FALSE,
                   brightness |-> Zero],
   terminals |-> <<Terminal("anode", "input"),
                   Terminal("cathode", "output")>>]

\* a wire drawn with two points or more; its resistance property is 0.01
Wire(id) ==
  [id |-> id, type |-> "wire",
   properties |-> [resistance |-> <<1, 100>>],
   terminals |-> <<Terminal("start", "bidirectional"),
                   Terminal("end", "bidirectional")>>]

getTerminals(c) == c.terminals

\* LED.setLit
setLit(c, lit) == [c EXCEPT !.properties.isLit = lit]

\* LED.setBrightness: clamps to [0,1] and sets isLit with it
setBrightness(c, brightness) ==
  LET clamped == RMax(Zero, RMin(One, brightness))
  IN  [c EXCEPT !.properties.brightness = clamped,
                !.properties.isLit = RLt(Zero, clamped)]

Connection(id, fc, ft, tc, tt) ==
  [id |-> id, fromComponent |-> fc, fromTerminal |-> ft,
   toComponent |-> tc, toTerminal |-> tt]

\* components.find(c => c.id === id) finds something
HasComponent(comps, id) == \E i \in 1..Len(comps) : comps[i].id = id

\* components.find(c => c.id === id), when it finds something: the first match
FindComponent(comps, id) ==
  comps[CHOOSE i \in 1..Len(comps) :
          comps[i].id = id /\ \A j \in 1..(i - 1) : comps[j].id # id]

\* componentMap.get(id), when the map has id: Map.set keeps the last component
\* of an id
MapGet(comps, id) ==
  comps[CHOOSE i \in 1..Len(comps) :
          comps[i].id = id /\ \A j \in (i + 1)..Len(comps) : comps[j].id # id]

\* the type of components.find(c => c.id === id), "undefined" when there is none
TypeOf(comps, id) ==
  IF HasComponent(comps, id) THEN FindComponent(comps, id).type ELSE "undefined"

\* terminals.find(t => t.id === id) finds something
HasTerminal(c, id) == \E i \in 1..Len(c.terminals) : c.terminals[i].id = id

\* terminals.find(t => t.id === id), when it finds something
FindTerminal(c, id) ==
  c.terminals[CHOOSE i \in 1..Len(c.terminals) :
                c.terminals[i].id = id /\ \A j \in 1..(i - 1) : c.terminals[j].id # id]

\* components.filter(c => c.type === type)
OfType(comps, type) == SelectSeq(comps, LAMBDA c : c.type = type)

---------------------------------------------------------------------------
(* CircuitValidator: services/CircuitValidator.ts.                         *)
(* A fault is a CircuitError without its texts: message, explanation and   *)
(* suggested fix are fixed per type and carry no state.                    *)

FromKey(c) == <<c.fromComponent, c.fromTerminal>>
ToKey(c) == <<c.toComponent, c.toTerminal>>

Fault(type, severity, comps, conns) ==
  [type |-> type, severity |-> severity,
   affectedComponents |-> comps, affectedConnections |-> conns]

\* buildConnectionGraph(connections).get(key) || []
RECURSIVE Adjacent(_, _)
Adjacent(conns, key) ==
  IF conns = <<>> THEN <<>>
  ELSE LET c == Head(conns)
           out == IF FromKey(c) = key
                  THEN <<[targetNode |-> ToKey(c), connectionId |-> c.id]>>
                  ELSE <<>>
           in == IF ToKey(c) = key
                 THEN <<[targetNode |-> FromKey(c), connectionId |-> c.id]>>
                 ELSE <<>>
       IN  out \o in \o Adjacent(Tail(conns), key)

\* the bound on newPath.length in both path searches
MaxPathLength == 8

\* connectionId of a path's first entry, which has none
NoConnection == ""

\* the dfs closure of findDirectPaths, returning the paths it pushes
RECURSIVE DirectDfs(_, _, _, _, _, _, _)
DirectDfs(startComponent, endTerminal, comps, conns, current, path, visited) ==
  LET adjacentNodes == Adjacent(conns, current)
      Step(e) ==
        IF e.connectionId \in visited THEN <<>>
        ELSE
          LET targetComponent == e.targetNode[1]
              targetTerminal == e.targetNode[2]
              newPath == Append(path, [componentId |-> targetComponent,
                                       connectionId |-> e.connectionId])
              newVisited == visited \cup {e.connectionId}
          IN  IF targetComponent = startComponent /\ targetTerminal = endTerminal
              THEN <<newPath>>
              ELSE IF Len(newPath) < MaxPathLength /\ HasComponent(comps, targetComponent)
              THEN LET terminals == getTerminals(FindComponent(comps, targetComponent))
                   IN  Flatten([j \in 1..Len(terminals) |->
                         IF terminals[j].id # targetTerminal
                         THEN DirectDfs(startComponent, endTerminal, comps, conns,
                                        <<targetComponent, terminals[j].id>>,
                                        newPath, newVisited)
                         ELSE <<>>])
              ELSE <<>>
  IN  Flatten([i \in 1..Len(adjacentNodes) |-> Step(adjacentNodes[i])])

findDirectPaths(startComponent, startTerminal, endTerminal, comps, conns) ==
  DirectDfs(startComponent, endTerminal, comps, conns,
            <<startComponent, startTerminal>>,
            <<[componentId |-> startComponent, connectionId |-> NoConnection]>>, {})

\* the dfs closure of findCompletePaths: as DirectDfs, and it does not walk on
\* from a component the path already holds
RECURSIVE CompleteDfs(_, _, _, _, _, _, _)
CompleteDfs(batteryId, endTerminal, comps, conns, current, path, visited) ==
  LET adjacentNodes == Adjacent(conns, current)
      Step(e) ==
        IF e.connectionId \in visited THEN <<>>
        ELSE
          LET targetComponent == e.targetNode[1]
              targetTerminal == e.targetNode[2]
              newPath == Append(path, targetComponent)
              newVisited == visited \cup {e.connectionId}
          IN  IF targetComponent = batteryId /\ targetTerminal = endTerminal
              THEN <<newPath>>
              ELSE IF /\ Len(newPath) < MaxPathLength
                      /\ ~Contains(path, targetComponent)
                      /\ HasComponent(comps, targetComponent)
              THEN LET terminals == getTerminals(FindComponent(comps, targetComponent))
                   IN  Flatten([j \in 1..Len(terminals) |->
                         IF terminals[j].id # targetTerminal
                         THEN CompleteDfs(batteryId, endTerminal, comps, conns,
                                          <<targetComponent, terminals[j].id>>,
                                          newPath, newVisited)
                         ELSE <<>>])
              ELSE <<>>
  IN  Flatten([i \in 1..Len(adjacentNodes) |-> Step(adjacentNodes[i])])

findCompletePaths(batteryId, startTerminal, endTerminal, comps, conns) ==
  CompleteDfs(batteryId, endTerminal, comps, conns,
              <<batteryId, startTerminal>>, <<batteryId>>, {})

\* the resistance a wire adds to a path: 0.01 ohm
WireResistance == <<1, 100>>

\* what one path entry adds in calculatePathResistance
EntryResistance(comps, componentId) ==
  IF TypeOf(comps, componentId) = "resistor"
  THEN getResistance(FindComponent(comps, componentId))
  ELSE IF TypeOf(comps, componentId) = "wire" THEN WireResistance
  ELSE Zero

\* a variant of calculatePathResistance in which a wire counts a full ohm
calculatePathResistanceOhmWire(path, comps) ==
  RSum([i \in 1..Len(path) |->
          IF TypeOf(comps, path[i].componentId) = "wire" THEN One
          ELSE EntryResistance(comps, path[i].componentId)])

calculatePathResistance(path, comps) ==
  RSum([i \in 1..Len(path) |-> EntryResistance(comps, path[i].componentId)])

\* pathResistance < 1
ShortThreshold == 1

\* the error checkForShortCircuits pushes for one path, if any
ShortCircuitOfPath(path, comps) ==
  IF RLt(calculatePathResistance(path, comps), Rat(ShortThreshold))
  THEN <<Fault("short_circuit", "error",
               [i \in 1..Len(path) |-> path[i].componentId],
               SelectSeq([i \in 1..(Len(path) - 1) |-> path[i + 1].connectionId],
                         LAMBDA id : id # NoConnection))>>
  ELSE <<>>

checkForShortCircuits(comps, conns) ==
  LET batteries == OfType(comps, "battery")
      OfBattery(b) ==
        LET paths == findDirectPaths(b.id, "positive", "negative", comps, conns)
        IN  Flatten([i \in 1..Len(paths) |-> ShortCircuitOfPath(paths[i], comps)])
  IN  Flatten([i \in 1..Len(batteries) |-> OfBattery(batteries[i])])

\* the error checkForOpenCircuits pushes for one battery, if any
OpenCircuitOfBattery(b, comps, conns) ==
  IF Len(findCompletePaths(b.id, "positive", "negative", comps, conns)) = 0
  THEN <<Fault("open_circuit", "error", <<b.id>>, <<>>)>>
  ELSE <<>>

checkForOpenCircuits(comps, conns) ==
  LET batteries == OfType(comps, "battery")
  IN  Flatten([i \in 1..Len(batteries) |-> OpenCircuitOfBattery(batteries[i], comps, conns)])

\* a variant of checkForPowerSources that asks for a battery even when there
\* are no components
checkForPowerSourcesAlways(comps) ==
  IF Len(OfType(comps, "battery")) = 0
  THEN <<Fault("no_power_source", "error", <<>>, <<>>)>>
  ELSE <<>>

checkForPowerSources(comps) ==
  IF Len(OfType(comps, "battery")) = 0 /\ Len(comps) > 0
  THEN <<Fault("no_power_source", "error", <<>>, <<>>)>>
  ELSE <<>>

\* the set connectedComponents both services build from the connections
ConnectedComponents(conns) ==
  { conns[i].fromComponent : i \in 1..Len(conns) } \cup
  { conns[i].toComponent : i \in 1..Len(conns) }

checkForDisconnectedComponents(comps, conns) ==
  LET loose == SelectSeq(comps, LAMBDA c :
                 c.id \notin ConnectedComponents(conns) /\ c.type # "wire")
  IN  [i \in 1..Len(loose) |->
         Fault("disconnected_component", "warning", <<loose[i].id>>, <<>>)]

\* [a, b].filter(Boolean): an empty id is dropped
FilterBoolean(ids) == SelectSeq(ids, LAMBDA id : id # "")

\* a variant of InvalidConnectionOf that looks for the from-terminal only
InvalidConnectionOfFromOnly(c, comps) ==
  IF ~HasComponent(comps, c.fromComponent) \/ ~HasComponent(comps, c.toComponent)
  THEN <<Fault("invalid_connection", "error",
               FilterBoolean(<<c.fromComponent, c.toComponent>>), <<c.id>>)>>
  ELSE IF ~HasTerminal(MapGet(comps, c.fromComponent), c.fromTerminal)
  THEN <<Fault("invalid_connection", "error",
               <<c.fromComponent, c.toComponent>>, <<c.id>>)>>
  ELSE <<>>

\* the error checkForInvalidConnections pushes for one connection, if any
InvalidConnectionOf(c, comps) ==
  IF ~HasComponent(comps, c.fromComponent) \/ ~HasComponent(comps, c.toComponent)
  THEN <<Fault("invalid_connection", "error",
               FilterBoolean(<<c.fromComponent, c.toComponent>>), <<c.id>>)>>
  ELSE IF \/ ~HasTerminal(MapGet(comps, c.fromComponent), c.fromTerminal)
          \/ ~HasTerminal(MapGet(comps, c.toComponent), c.toTerminal)
  THEN <<Fault("invalid_connection", "error",
               <<c.fromComponent, c.toComponent>>, <<c.id>>)>>
  ELSE <<>>

checkForInvalidConnections(comps, conns) ==
  Flatten([i \in 1..Len(conns) |-> InvalidConnectionOf(conns[i], comps)])

calculateTotalCircuitResistance(comps) ==
  LET resistors == OfType(comps, "resistor")
  IN  IF Len(resistors) = 0 THEN Zero
      ELSE RSum([i \in 1..Len(resistors) |-> getResistance(resistors[i])])

\* maxLEDCurrent = 0.02 in the validator, maxCurrent = 0.02 in the simulator
MaxLEDCurrent == <<1, 50>>

checkForComponentOverloads(comps, conns) ==
  LET batteries == OfType(comps, "battery")
      leds == OfType(comps, "led")
      totalResistance == calculateTotalCircuitResistance(comps)
      OfBattery(b) ==
        IF RLt(Zero, totalResistance)
        THEN LET current == RDiv(getVoltage(b), totalResistance)
             IN  Flatten([j \in 1..Len(leds) |->
                   IF RLt(MaxLEDCurrent, current)
                   THEN <<Fault("component_overload", "warning", <<leds[j].id>>, <<>>)>>
                   ELSE <<>>])
        ELSE <<>>
  IN  Flatten([i \in 1..Len(batteries) |-> OfBattery(batteries[i])])

\* the connections that touch componentId:terminalId
TouchingTerminal(conns, componentId, terminalId) ==
  SelectSeq(conns, LAMBDA c :
    \/ (c.fromComponent = componentId /\ c.fromTerminal = terminalId)
    \/ (c.toComponent = componentId /\ c.toTerminal = terminalId))

\* the connections that touch componentId
TouchingComponent(conns, componentId) ==
  SelectSeq(conns, LAMBDA c :
    c.fromComponent = componentId \/ c.toComponent = componentId)

\* connection.fromComponent === id ? connection.toComponent : connection.fromComponent
OtherComponent(c, id) == IF c.fromComponent = id THEN c.toComponent ELSE c.fromComponent

\* connection.fromComponent === id ? connection.toTerminal : connection.fromTerminal
OtherTerminal(c, id) == IF c.fromComponent = id THEN c.toTerminal ELSE c.fromTerminal

checkForReversePolarity(comps, conns) ==
  LET leds == OfType(comps, "led")
      OfLed(led) ==
        LET anodeConnections == TouchingTerminal(conns, led.id, "anode")
        IN  Flatten([j \in 1..Len(anodeConnections) |->
              LET anodeConn == anodeConnections[j]
                  otherComponent == OtherComponent(anodeConn, led.id)
              IN  IF /\ TypeOf(comps, otherComponent) = "battery"
                     /\ OtherTerminal(anodeConn, led.id) = "negative"
                  THEN <<Fault("reverse_polarity", "warning",
                               <<led.id, otherComponent>>, <<anodeConn.id>>)>>
                  ELSE <<>>])
  IN  Flatten([i \in 1..Len(leds) |-> OfLed(leds[i])])

isComponentInSeriesWith(componentId, targetComponentIds, conns) ==
  LET componentConnections == TouchingComponent(conns, componentId)
  IN  \E i \in 1..Len(componentConnections) :
        OtherComponent(componentConnections[i], componentId) \in targetComponentIds

checkForMissingCurrentLimiting(comps, conns) ==
  LET leds == OfType(comps, "led")
      resistorIds == { c.id : c \in Range(OfType(comps, "resistor")) }
      bare == SelectSeq(leds, LAMBDA led :
                ~isComponentInSeriesWith(led.id, resistorIds, conns))
  IN  [i \in 1..Len(bare) |->
         Fault("missing_current_limiting", "warning", <<bare[i].id>>, <<>>)]

\* the keys of nodeConnections, in insertion order
RECURSIVE EndpointKeys(_)
EndpointKeys(conns) ==
  IF conns = <<>> THEN <<>>
  ELSE LET rest == EndpointKeys(SubSeq(conns, 1, Len(conns) - 1))
           c == conns[Len(conns)]
       IN  AddUnique(AddUnique(rest, FromKey(c)), ToKey(c))

\* nodeConnections.get(key): the connection ends at key
EndCount(conns, key) ==
  Cardinality({ i \in 1..Len(conns) : FromKey(conns[i]) = key }) +
  Cardinality({ i \in 1..Len(conns) : ToKey(conns[i]) = key })

\* a variant of checkForFloatingNodes that does not pass over wires
checkForFloatingNodesOfWires(comps, conns) ==
  LET keys == EndpointKeys(conns)
      floating == SelectSeq(keys, LAMBDA k :
                    /\ EndCount(conns, k) = 1
                    /\ HasComponent(comps, k[1]))
  IN  [i \in 1..Len(floating) |->
         Fault("floating_node", "info", <<floating[i][1]>>, <<>>)]

checkForFloatingNodes(comps, conns) ==
  LET keys == EndpointKeys(conns)
      floating == SelectSeq(keys, LAMBDA k :
                    /\ EndCount(conns, k) = 1
                    /\ HasComponent(comps, k[1])
                    /\ TypeOf(comps, k[1]) # "wire")
  IN  [i \in 1..Len(floating) |->
         Fault("floating_node", "info", <<floating[i][1]>>, <<>>)]

\* the keys of connectionMap, in insertion order: key1 and key2 of each connection
RECURSIVE PairKeys(_)
PairKeys(conns) ==
  IF conns = <<>> THEN <<>>
  ELSE LET rest == PairKeys(SubSeq(conns, 1, Len(conns) - 1))
           c == conns[Len(conns)]
       IN  AddUnique(AddUnique(rest, <<FromKey(c), ToKey(c)>>), <<ToKey(c), FromKey(c)>>)

\* connectionMap.get(key): each connection is pushed under key1 and under key2
RECURSIVE PairList(_, _)
PairList(conns, key) ==
  IF conns = <<>> THEN <<>>
  ELSE LET c == Head(conns)
           one == IF <<FromKey(c), ToKey(c)>> = key THEN <<c.id>> ELSE <<>>
           two == IF <<ToKey(c), FromKey(c)>> = key THEN <<c.id>> ELSE <<>>
       IN  one \o two \o PairList(Tail(conns), key)

\* a variant of checkForDuplicateConnections that files each connection under
\* its from-to key only
checkForDuplicateConnectionsDirected(conns) ==
  LET keys == PairKeys(conns)
      list(k) == LET hit == SelectSeq(conns, LAMBDA c : <<FromKey(c), ToKey(c)>> = k)
                 IN  [i \in 1..Len(hit) |-> hit[i].id]
      dup == SelectSeq(keys, LAMBDA k : Len(list(k)) > 1)
  IN  [i \in 1..Len(dup) |->
         Fault("duplicate_connection", "warning", <<>>, list(dup[i]))]

checkForDuplicateConnections(conns) ==
  LET keys == PairKeys(conns)
      dup == SelectSeq(keys, LAMBDA k : Len(PairList(conns, k)) > 1)
  IN  [i \in 1..Len(dup) |->
         Fault("duplicate_connection", "warning", <<>>, PairList(conns, dup[i]))]

\* the faults of the ten checks in the order validateCircuit runs them
AllChecks(comps, conns) ==
  checkForShortCircuits(comps, conns) \o
  checkForOpenCircuits(comps, conns) \o
  checkForPowerSources(comps) \o
  checkForDisconnectedComponents(comps, conns) \o
  checkForInvalidConnections(comps, conns) \o
  checkForComponentOverloads(comps, conns) \o
  checkForReversePolarity(comps, conns) \o
  checkForMissingCurrentLimiting(comps, conns) \o
  checkForFloatingNodes(comps, conns) \o
  checkForDuplicateConnections(conns)

\* generateErrorId: `error_${++this.errorCounter}_${Date.now()}`.  The k-th
\* fault of a call gets counter + k; one clock reading stands for the call's.
generateErrorId(counter, k, now) == <<"error", counter + k, now>>

\* a variant of validateCircuit in which a warning makes the circuit invalid
validateCircuitStrict(comps, conns, counter, now) ==
  LET raw == AllChecks(comps, conns)
      all == [k \in 1..Len(raw) |->
                [id |-> generateErrorId(counter, k, now),
                 type |-> raw[k].type,
                 severity |-> raw[k].severity,
                 affectedComponents |-> raw[k].affectedComponents,
                 affectedConnections |-> raw[k].affectedConnections]]
      errors == SelectSeq(all, LAMBDA f : f.severity = "error")
      warnings == SelectSeq(all, LAMBDA f : f.severity = "warning")
  IN  [isValid |-> Len(errors) = 0 /\ Len(warnings) = 0,
       errors |-> errors,
       warnings |-> warnings,
       info |-> SelectSeq(all, LAMBDA f : f.severity = "info")]

\* validateCircuit on a validator whose errorCounter is counter, at time now
validateCircuit(comps, conns, counter, now) ==
  LET raw == AllChecks(comps, conns)
      all == [k \in 1..Len(raw) |->
                [id |-> generateErrorId(counter, k, now),
                 type |-> raw[k].type,
                 severity |-> raw[k].severity,
                 affectedComponents |-> raw[k].affectedComponents,
                 affectedConnections |-> raw[k].affectedConnections]]
      errors == SelectSeq(all, LAMBDA f : f.severity = "error")
  IN  [isValid |-> Len(errors) = 0,
       errors |-> errors,
       warnings |-> SelectSeq(all, LAMBDA f : f.severity = "warning"),
       info |-> SelectSeq(all, LAMBDA f : f.severity = "info")]

---------------------------------------------------------------------------
(* CircuitSimulator: services/CircuitSimulator.ts.                         *)
(* Messages are tuples of their fixed text and the ids put into it.        *)

\* private tolerance = 1e-9, as the denominator of 1/10^9
ToleranceInverse == 1000000000

\* x > this.tolerance
AboveTolerance(x) == GtInverse(x, ToleranceInverse)

\* what validateConnections pushes for one connection: [errors, warnings]
CheckConnection(c, comps) ==
  IF ~HasComponent(comps, c.fromComponent)
  THEN [errors |-> <<<<"Connection", c.id, "Component not found", c.fromComponent>>>>,
        warnings |-> <<>>]
  ELSE IF ~HasComponent(comps, c.toComponent)
  THEN [errors |-> <<<<"Connection", c.id, "Component not found", c.toComponent>>>>,
        warnings |-> <<>>]
  ELSE IF ~HasTerminal(MapGet(comps, c.fromComponent), c.fromTerminal)
  THEN [errors |-> <<<<"Connection", c.id, "Terminal not found", c.fromTerminal>>>>,
        warnings |-> <<>>]
  ELSE IF ~HasTerminal(MapGet(comps, c.toComponent), c.toTerminal)
  THEN [errors |-> <<<<"Connection", c.id, "Terminal not found", c.toTerminal>>>>,
        warnings |-> <<>>]
  ELSE LET fromType == FindTerminal(MapGet(comps, c.fromComponent), c.fromTerminal).type
           toType == FindTerminal(MapGet(comps, c.toComponent), c.toTerminal).type
       IN  [errors |-> <<>>,
            warnings |->
              (IF fromType = "input" /\ toType = "input"
               THEN <<<<"Connection", c.id, "Connecting two input terminals">>>>
               ELSE <<>>) \o
              (IF fromType = "output" /\ toType = "output"
               THEN <<<<"Connection", c.id, "Connecting two output terminals">>>>
               ELSE <<>>)]

validateConnections(comps, conns) ==
  LET each == [i \in 1..Len(conns) |-> CheckConnection(conns[i], comps)]
      errors == Flatten([i \in 1..Len(conns) |-> each[i].errors])
  IN  [isValid |-> Len(errors) = 0,
       errors |-> errors,
       warnings |-> Flatten([i \in 1..Len(conns) |-> each[i].warnings])]

NodeId(n) == <<"node", n>>
Ground == <<"ground">>

\* the first loop of buildCircuitNodes: every endpoint key its own group,
\* numbered in the order the keys are first met
InitialGroups(conns) ==
  LET keys == EndpointKeys(conns)
  IN  [i \in 1..Len(keys) |-> [id |-> NodeId(i - 1), terminals |-> <<keys[i]>>]]

\* terminalToNode.get(key), read off the groups
GroupOf(groups, key) ==
  groups[CHOOSE i \in 1..Len(groups) : Contains(groups[i].terminals, key)].id

\* a variant of MergeStep that moves only the connection's own to-terminal
\* into the from-group
MergeStepOneKey(groups, c) ==
  LET fromNodeId == GroupOf(groups, FromKey(c))
      toNodeId == GroupOf(groups, ToKey(c))
  IN  IF fromNodeId = toNodeId THEN groups
      ELSE LET moved == [i \in 1..Len(groups) |->
                          IF groups[i].id = fromNodeId
                          THEN [groups[i] EXCEPT !.terminals = Append(@, ToKey(c))]
                          ELSE IF groups[i].id = toNodeId
                          THEN [groups[i] EXCEPT !.terminals =
                                  SelectSeq(@, LAMBDA t : t # ToKey(c))]
                          ELSE groups[i]]
           IN  SelectSeq(moved, LAMBDA g : g.terminals # <<>>)

\* a variant of MergeStep that pours a group only into a group numbered
\* before it
MergeStepOlder(groups, c) ==
  LET fromNodeId == GroupOf(groups, FromKey(c))
      toNodeId == GroupOf(groups, ToKey(c))
  IN  IF fromNodeId = toNodeId \/ fromNodeId[2] > toNodeId[2] THEN groups
      ELSE LET toGroup == groups[CHOOSE i \in 1..Len(groups) : groups[i].id = toNodeId]
               poured == [i \in 1..Len(groups) |->
                            IF groups[i].id = fromNodeId
                            THEN [groups[i] EXCEPT !.terminals = @ \o toGroup.terminals]
                            ELSE groups[i]]
           IN  SelectSeq(poured, LAMBDA g : g.id # toNodeId)

\* one round of the merge loop: the to-group is poured into the from-group
\* and deleted
MergeStep(groups, c) ==
  LET fromNodeId == GroupOf(groups, FromKey(c))
      toNodeId == GroupOf(groups, ToKey(c))
  IN  IF fromNodeId = toNodeId THEN groups
      ELSE LET toGroup == groups[CHOOSE i \in 1..Len(groups) : groups[i].id = toNodeId]
               poured == [i \in 1..Len(groups) |->
                            IF groups[i].id = fromNodeId
                            THEN [groups[i] EXCEPT !.terminals = @ \o toGroup.terminals]
                            ELSE groups[i]]
           IN  SelectSeq(poured, LAMBDA g : g.id # toNodeId)

RECURSIVE MergeAll(_, _)
MergeAll(groups, conns) ==
  IF conns = <<>> THEN groups
  ELSE MergeAll(MergeStep(groups, Head(conns)), Tail(conns))

\* the component ids of a group's terminals, in the order first met
RECURSIVE ComponentIdsOf(_)
ComponentIdsOf(terminals) ==
  IF terminals = <<>> THEN <<>>
  ELSE AddUnique(ComponentIdsOf(SubSeq(terminals, 1, Len(terminals) - 1)),
                 terminals[Len(terminals)][1])

\* a variant of GroundIndex that takes the last of the nodes with the most
\* components
GroundIndexLast(nodes) ==
  CHOOSE i \in 1..Len(nodes) :
    /\ \A j \in 1..Len(nodes) : Len(nodes[j].components) <= Len(nodes[i].components)
    /\ \A j \in (i + 1)..Len(nodes) : Len(nodes[j].components) < Len(nodes[i].components)

\* the index of the ground among the nodes: the first node no later node
\* beats in number of components
GroundIndex(nodes) ==
  CHOOSE i \in 1..Len(nodes) :
    /\ \A j \in 1..Len(nodes) : Len(nodes[j].components) <= Len(nodes[i].components)
    /\ \A j \in 1..(i - 1) : Len(nodes[j].components) < Len(nodes[i].components)

\* buildCircuitNodes: the nodes map as the sequence of its values in key order
buildCircuitNodes(comps, conns) ==
  IF Len(conns) = 0 THEN <<>>
  ELSE
    LET groups == MergeAll(InitialGroups(conns), conns)
        nodes == [i \in 1..Len(groups) |->
                    [id |-> groups[i].id, voltage |-> Zero,
                     components |-> ComponentIdsOf(groups[i].terminals),
                     terminals |-> groups[i].terminals]]
        g == GroundIndex(nodes)
    IN  \* nodes.delete(oldId); nodes.set('ground', groundNode) moves it last
        SelectSeq(nodes, LAMBDA n : n.id # nodes[g].id) \o
        <<[nodes[g] EXCEPT !.id = Ground, !.voltage = Zero]>>

\* the short-circuit errors the simulator's validateCircuit pushes for one
\* connection of a battery
WireBridge(battery, connection, comps, conns) ==
  LET otherComponent == OtherComponent(connection, battery.id)
  IN  IF TypeOf(comps, otherComponent) = "wire"
      THEN LET wireConnections == TouchingComponent(conns, otherComponent)
               connectsToBattery == TouchingComponent(wireConnections, battery.id)
               terminals == { IF c.fromComponent = battery.id
                              THEN c.fromTerminal ELSE c.toTerminal :
                              c \in Range(connectsToBattery) }
           IN  IF /\ Len(connectsToBattery) >= 2
                  /\ "positive" \in terminals
                  /\ "negative" \in terminals
               THEN <<<<"Short circuit detected", battery.id>>>>
               ELSE <<>>
      ELSE <<>>

NoSourceError == <<"Circuit must contain at least one voltage source (battery)">>

\* a variant of the simulator's validateCircuit that asks for a battery only
\* when there are components
simValidateCircuitNonEmpty(comps, conns) ==
  LET loose == SelectSeq(comps, LAMBDA c :
                 c.id \notin ConnectedComponents(conns) /\ c.type # "wire")
      warnings == [i \in 1..Len(loose) |-> <<"not connected", loose[i].id>>]
      voltageSources == OfType(comps, "battery")
      noSource == IF Len(voltageSources) = 0 /\ Len(comps) > 0
                  THEN <<NoSourceError>> ELSE <<>>
      OfBattery(b) ==
        LET batteryConnections == TouchingComponent(conns, b.id)
        IN  Flatten([j \in 1..Len(batteryConnections) |->
                       WireBridge(b, batteryConnections[j], comps, conns)])
      errors == noSource \o
                Flatten([i \in 1..Len(voltageSources) |-> OfBattery(voltageSources[i])])
  IN  [isValid |-> Len(errors) = 0, errors |-> errors, warnings |-> warnings]

\* the simulator's own validateCircuit
simValidateCircuit(comps, conns) ==
  LET loose == SelectSeq(comps, LAMBDA c :
                 c.id \notin ConnectedComponents(conns) /\ c.type # "wire")
      warnings == [i \in 1..Len(loose) |-> <<"not connected", loose[i].id>>]
      voltageSources == OfType(comps, "battery")
      noSource == IF Len(voltageSources) = 0 THEN <<NoSourceError>> ELSE <<>>
      OfBattery(b) ==
        LET batteryConnections == TouchingComponent(conns, b.id)
        IN  Flatten([j \in 1..Len(batteryConnections) |->
                       WireBridge(b, batteryConnections[j], comps, conns)])
      errors == noSource \o
                Flatten([i \in 1..Len(voltageSources) |-> OfBattery(voltageSources[i])])
  IN  [isValid |-> Len(errors) = 0, errors |-> errors, warnings |-> warnings]

\* findNodeForComponentTerminal finds a node
HasNodeFor(nodes, componentId, terminalId) ==
  \E i \in 1..Len(nodes) : Contains(nodes[i].terminals, <<componentId, terminalId>>)

\* findNodeForComponentTerminal, when it finds a node: its id
findNodeForComponentTerminal(nodes, componentId, terminalId) ==
  nodes[CHOOSE i \in 1..Len(nodes) :
          /\ Contains(nodes[i].terminals, <<componentId, terminalId>>)
          /\ \A j \in 1..(i - 1) :
               ~Contains(nodes[j].terminals, <<componentId, terminalId>>)].id

\* Map.set on a map kept as a sequence of [key, value] in insertion order
MapSet(m, k, v) ==
  IF \E i \in 1..Len(m) : m[i].key = k
  THEN [i \in 1..Len(m) |-> IF m[i].key = k THEN [key |-> k, value |-> v] ELSE m[i]]
  ELSE Append(m, [key |-> k, value |-> v])

MapHasKey(m, k) == \E i \in 1..Len(m) : m[i].key = k

\* what one battery adds to the voltage map of solveNodalAnalysis
BatteryVoltages(m, battery, nodes) ==
  IF /\ HasNodeFor(nodes, battery.id, "positive")
     /\ HasNodeFor(nodes, battery.id, "negative")
  THEN LET positiveNode == findNodeForComponentTerminal(nodes, battery.id, "positive")
           negativeNode == findNodeForComponentTerminal(nodes, battery.id, "negative")
           batteryVoltage == getVoltage(battery)
       IN  IF negativeNode = Ground THEN MapSet(m, positiveNode, batteryVoltage)
           ELSE IF positiveNode = Ground
           THEN MapSet(m, negativeNode, RSub(Zero, batteryVoltage))
           ELSE MapSet(MapSet(m, positiveNode, batteryVoltage), negativeNode, Zero)
  ELSE m

RECURSIVE AllBatteryVoltages(_, _, _)
AllBatteryVoltages(m, batteries, nodes) ==
  IF batteries = <<>> THEN m
  ELSE AllBatteryVoltages(BatteryVoltages(m, Head(batteries), nodes),
                          Tail(batteries), nodes)

\* remaining nodes get 0 V
RECURSIVE FillZero(_, _)
FillZero(m, nodes) ==
  IF nodes = <<>> THEN m
  ELSE FillZero(IF MapHasKey(m, Head(nodes).id) THEN m
                ELSE MapSet(m, Head(nodes).id, Zero),
                Tail(nodes))

\* solveNodalAnalysis: the voltage map
solveNodalAnalysis(comps, conns, nodes) ==
  LET ground == <<[key |-> Ground, value |-> Zero]>>
      batteries == OfType(comps, "battery")
  IN  IF Len(batteries) = 0 THEN FillZero(ground, nodes)
      ELSE FillZero(AllBatteryVoltages(ground, batteries, nodes), nodes)

\* the set of other components a resistor's connections lead to
OtherComponents(conns, id) ==
  { OtherComponent(c, id) : c \in Range(TouchingComponent(conns, id)) }

\* a variant of areResistorsInParallel that gives up below three resistors
areResistorsInParallelFromThree(resistors, conns) ==
  IF Len(resistors) < 3 THEN FALSE
  ELSE \E i \in 1..Len(resistors) : \E j \in (i + 1)..Len(resistors) :
         LET r1 == OtherComponents(conns, resistors[i].id)
             r2 == OtherComponents(conns, resistors[j].id)
         IN  Cardinality(r1) = Cardinality(r2) /\ r1 \subseteq r2

areResistorsInParallel(resistors, conns) ==
  IF Len(resistors) < 2 THEN FALSE
  ELSE \E i \in 1..Len(resistors) : \E j \in (i + 1)..Len(resistors) :
         LET r1 == OtherComponents(conns, resistors[i].id)
             r2 == OtherComponents(conns, resistors[j].id)
         IN  Cardinality(r1) = Cardinality(r2) /\ r1 \subseteq r2

\* batteries.reduce((sum, b) => sum + b.getVoltage(), 0)
TotalVoltage(comps) ==
  LET batteries == OfType(comps, "battery")
  IN  RSum([i \in 1..Len(batteries) |-> getVoltage(batteries[i])])

\* resistors.reduce((sum, r) => sum + r.getResistance(), 0)
SeriesResistance(comps) ==
  LET resistors == OfType(comps, "resistor")
  IN  RSum([i \in 1..Len(resistors) |-> getResistance(resistors[i])])

\* 1 / (1/R1 + 1/R2 + ...)
ParallelResistance(comps) ==
  LET resistors == OfType(comps, "resistor")
  IN  RDiv(One, RSum([i \in 1..Len(resistors) |-> RDiv(One, getResistance(resistors[i]))]))

\* the resistance a conducting LED adds: 100 ohm
LEDResistance == 100

\* a variant of calculateCircuitCurrent that lets current through an LED
\* below its forward voltage
calculateCircuitCurrentUnblocked(comps, conns) ==
  LET batteries == OfType(comps, "battery")
      resistors == OfType(comps, "resistor")
      isParallel == areResistorsInParallel(resistors, conns)
      totalResistance == IF isParallel /\ Len(resistors) > 1
                         THEN ParallelResistance(comps) ELSE SeriesResistance(comps)
  IN  IF Len(batteries) = 0 THEN Zero
      ELSE IF RLe(totalResistance, Zero) THEN Zero
      ELSE RMax(Zero, RDiv(TotalVoltage(comps), totalResistance))

calculateCircuitCurrent(comps, conns) ==
  LET batteries == OfType(comps, "battery")
      resistors == OfType(comps, "resistor")
      leds == OfType(comps, "led")
      totalVoltage == TotalVoltage(comps)
      isParallel == areResistorsInParallel(resistors, conns)
      base == IF isParallel /\ Len(resistors) > 1
              THEN ParallelResistance(comps) ELSE SeriesResistance(comps)
      blocked == \E i \in 1..Len(leds) : RLt(totalVoltage, getForwardVoltage(leds[i]))
      totalResistance == RAdd(base, Rat(LEDResistance * Len(leds)))
      effectiveVoltage ==
        RSub(totalVoltage, RSum([i \in 1..Len(leds) |-> getForwardVoltage(leds[i])]))
  IN  IF Len(batteries) = 0 THEN Zero
      ELSE IF blocked THEN Zero
      ELSE IF RLe(totalResistance, Zero) THEN Zero
      ELSE RMax(Zero, RDiv(effectiveVoltage, totalResistance))

NoProperties == <<>>

State(id, voltage, current, isActive, additional) ==
  [componentId |-> id, voltage |-> voltage, current |-> current,
   power |-> RMul(current, voltage), isActive |-> isActive,
   additionalProperties |-> additional]

\* the state calculateComponentStates gives a resistor
ResistorState(c, comps, conns) ==
  LET resistors == OfType(comps, "resistor")
      isParallel == areResistorsInParallel(resistors, conns)
      resistance == getResistance(c)
      totalVoltage == TotalVoltage(comps)
      circuitCurrent == calculateCircuitCurrent(comps, conns)
  IN  IF isParallel /\ Len(resistors) > 1
      THEN State(c.id, totalVoltage, RDiv(totalVoltage, resistance),
                 AboveTolerance(RDiv(totalVoltage, resistance)), NoProperties)
      ELSE State(c.id, RMul(circuitCurrent, resistance), circuitCurrent,
                 AboveTolerance(circuitCurrent), NoProperties)

\* the state calculateComponentStates gives a battery
BatteryState(c, comps, conns) ==
  State(c.id, getVoltage(c), calculateCircuitCurrent(comps, conns), TRUE, NoProperties)

\* a variant of LedState that does not clamp the brightness
LedStateUnclamped(c, comps, conns) ==
  LET forwardVoltage == getForwardVoltage(c)
      circuitCurrent == calculateCircuitCurrent(comps, conns)
      voltageAcrossLED ==
        RSub(TotalVoltage(comps), RMul(circuitCurrent, SeriesResistance(comps)))
  IN  IF RLe(forwardVoltage, voltageAcrossLED) /\ AboveTolerance(circuitCurrent)
      THEN State(c.id, voltageAcrossLED, circuitCurrent, TRUE,
                 [brightness |-> RDiv(circuitCurrent, MaxLEDCurrent)])
      ELSE State(c.id, Zero, Zero, FALSE, [brightness |-> Zero])

\* the state calculateComponentStates gives an LED
LedState(c, comps, conns) ==
  LET forwardVoltage == getForwardVoltage(c)
      circuitCurrent == calculateCircuitCurrent(comps, conns)
      voltageAcrossLED ==
        RSub(TotalVoltage(comps), RMul(circuitCurrent, SeriesResistance(comps)))
  IN  IF RLe(forwardVoltage, voltageAcrossLED) /\ AboveTolerance(circuitCurrent)
      THEN State(c.id, voltageAcrossLED, circuitCurrent, TRUE,
                 [brightness |-> RMin(RDiv(circuitCurrent, MaxLEDCurrent), One)])
      ELSE State(c.id, Zero, Zero, FALSE, [brightness |-> Zero])

\* calculateComponentStates: the states map as the sequence of its values
calculateComponentStates(comps, conns) ==
  [i \in 1..Len(comps) |->
     IF comps[i].type = "resistor" THEN ResistorState(comps[i], comps, conns)
     ELSE IF comps[i].type = "battery" THEN BatteryState(comps[i], comps, conns)
     ELSE IF comps[i].type = "led" THEN LedState(comps[i], comps, conns)
     ELSE State(comps[i].id, Zero, Zero, FALSE, NoProperties)]

\* componentStates.get(id), when the map has id: Map.set keeps the last state
StateOf(states, id) ==
  states[CHOOSE i \in 1..Len(states) :
           states[i].componentId = id /\
           \A j \in (i + 1)..Len(states) : states[j].componentId # id]

HasState(states, id) == \E i \in 1..Len(states) : states[i].componentId = id

\* what updateComponentProperties does to one component
UpdatedComponent(c, states) ==
  IF ~HasState(states, c.id) \/ c.type # "led" THEN c
  ELSE LET state == StateOf(states, c.id)
           lit == setLit(c, state.isActive)
       IN  IF "brightness" \in DOMAIN state.additionalProperties
           THEN setBrightness(lit, state.additionalProperties.brightness)
           ELSE lit

updateComponentProperties(comps, states) ==
  [i \in 1..Len(comps) |-> UpdatedComponent(comps[i], states)]

\* a variant of simulate that puts the nodes into the result as soon as they
\* are built
simulateEarlyNodes(comps, conns) ==
  LET connectionValidation == validateConnections(comps, conns)
      nodes == buildCircuitNodes(comps, conns)
      validation == simValidateCircuit(comps, conns)
      componentStates == calculateComponentStates(comps, conns)
  IN  IF ~connectionValidation.isValid
      THEN [result |-> [nodes |-> <<>>, componentStates |-> <<>>, isValid |-> FALSE,
                        errors |-> connectionValidation.errors,
                        warnings |-> connectionValidation.warnings],
            components |-> comps]
      ELSE IF ~validation.isValid
      THEN [result |-> [nodes |-> nodes, componentStates |-> <<>>, isValid |-> FALSE,
                        errors |-> validation.errors,
                        warnings |-> connectionValidation.warnings \o validation.warnings],
            components |-> comps]
      ELSE [result |-> [nodes |-> nodes, componentStates |-> componentStates,
                        isValid |-> TRUE, errors |-> <<>>,
                        warnings |-> connectionValidation.warnings \o validation.warnings],
            components |-> updateComponentProperties(comps, componentStates)]

\* simulate: the SimulationResult it returns and the components as it leaves them
simulate(comps, conns) ==
  LET connectionValidation == validateConnections(comps, conns)
      nodes == buildCircuitNodes(comps, conns)
      validation == simValidateCircuit(comps, conns)
      voltages == solveNodalAnalysis(comps, conns, nodes)
      componentStates == calculateComponentStates(comps, conns)
  IN  IF ~connectionValidation.isValid
      THEN [result |-> [nodes |-> <<>>, componentStates |-> <<>>, isValid |-> FALSE,
                        errors |-> connectionValidation.errors,
                        warnings |-> connectionValidation.warnings],
            components |-> comps]
      ELSE IF ~validation.isValid
      THEN [result |-> [nodes |-> <<>>, componentStates |-> <<>>, isValid |-> FALSE,
                        errors |-> validation.errors,
                        warnings |-> connectionValidation.warnings \o validation.warnings],
            components |-> comps]
      ELSE [result |-> [nodes |-> nodes, componentStates |-> componentStates,
                        isValid |-> TRUE, errors |-> <<>>,
                        warnings |-> connectionValidation.warnings \o validation.warnings],
            components |-> updateComponentProperties(comps, componentStates)]

---------------------------------------------------------------------------
(* ConnectionManager: the wire-drawing state and the stored connections.   *)
(* A ConnectionPoint's terminal is the component's own Terminal object; its *)
(* connected flag and connectionId are kept, per terminal key, in a status *)
(* function.  Positions are abstract: a terminal's position is its key.    *)

NoPosition == <<>>

\* the terminal keys of a component list
KeysOf(comps) ==
  UNION { { <<comps[i].id, comps[i].terminals[j].id>> : j \in 1..Len(comps[i].terminals) } :
          i \in 1..Len(comps) }

\* createTerminal: connected false, connectionId undefined
FreshStatus(comps) ==
  [key \in KeysOf(comps) |-> [connected |-> FALSE, connectionId |-> ""]]

ConnectionPoint(c, t) ==
  [componentId |-> c.id, terminalId |-> t.id, position |-> <<c.id, t.id>>,
   terminalType |-> t.type]

\* startPoint: null
NoPoint ==
  [componentId |-> "", terminalId |-> "", position |-> NoPosition, terminalType |-> ""]

\* the connection points findTerminalAtPosition can return
Points(comps) ==
  UNION { { ConnectionPoint(comps[i], comps[i].terminals[j]) :
              j \in 1..Len(comps[i].terminals) } : i \in 1..Len(comps) }

PointKey(point) == <<point.componentId, point.terminalId>>

IdleDrawing ==
  [isDrawing |-> FALSE, startPoint |-> NoPoint,
   currentMousePosition |-> NoPosition, previewPath |-> <<>>]

\* new ConnectionManager()
NewConnectionManager == [connections |-> <<>>, wireDrawingState |-> IdleDrawing]

startWireDrawing(m, connectionPoint) ==
  [m EXCEPT !.wireDrawingState =
     [isDrawing |-> TRUE, startPoint |-> connectionPoint,
      currentMousePosition |-> connectionPoint.position,
      previewPath |-> <<connectionPoint.position>>]]

updateWireDrawing(m, mousePosition) ==
  IF ~m.wireDrawingState.isDrawing THEN m
  ELSE [m EXCEPT !.wireDrawingState =
          [@ EXCEPT !.currentMousePosition = mousePosition,
                    !.previewPath =
                      IF m.wireDrawingState.startPoint # NoPoint
                      THEN <<m.wireDrawingState.startPoint.position, mousePosition>>
                      ELSE @]]

cancelWireDrawing(m) == [m EXCEPT !.wireDrawingState = IdleDrawing]

\* findConnectionBetweenComponents(...) is not null
findConnectionBetweenComponents(conns, componentId1, componentId2) ==
  \E i \in 1..Len(conns) :
    \/ (conns[i].fromComponent = componentId1 /\ conns[i].toComponent = componentId2)
    \/ (conns[i].fromComponent = componentId2 /\ conns[i].toComponent = componentId1)

Verdict(isValid, error) == [isValid |-> isValid, error |-> error]

\* a variant of validateConnection without the check for an existing
\* connection between the two components
validateConnectionAnyPair(startPoint, endPoint, conns, status) ==
  IF startPoint.componentId = endPoint.componentId
  THEN Verdict(FALSE, "Cannot connect a component to itself")
  ELSE IF status[PointKey(startPoint)].connected
  THEN Verdict(FALSE, "Start terminal is already connected")
  ELSE IF status[PointKey(endPoint)].connected
  THEN Verdict(FALSE, "End terminal is already connected")
  ELSE IF startPoint.terminalType = "output" /\ endPoint.terminalType = "output"
  THEN Verdict(FALSE, "Cannot connect two output terminals")
  ELSE IF startPoint.terminalType = "input" /\ endPoint.terminalType = "input"
  THEN Verdict(FALSE, "Cannot connect two input terminals")
  ELSE Verdict(TRUE, "")

validateConnection(startPoint, endPoint, conns, status) ==
  IF startPoint.componentId = endPoint.componentId
  THEN Verdict(FALSE, "Cannot connect a component to itself")
  ELSE IF status[PointKey(startPoint)].connected
  THEN Verdict(FALSE, "Start terminal is already connected")
  ELSE IF status[PointKey(endPoint)].connected
  THEN Verdict(FALSE, "End terminal is already connected")
  ELSE IF startPoint.terminalType = "output" /\ endPoint.terminalType = "output"
  THEN Verdict(FALSE, "Cannot connect two output terminals")
  ELSE IF startPoint.terminalType = "input" /\ endPoint.terminalType = "input"
  THEN Verdict(FALSE, "Cannot connect two input terminals")
  ELSE IF findConnectionBetweenComponents(conns, startPoint.componentId,
                                          endPoint.componentId)
  THEN Verdict(FALSE, "Components are already connected")
  ELSE Verdict(TRUE, "")

\* completeWireDrawing returns null
NullConnection == Connection("", "", "", "", "")

\* this.connections.set(connection.id, connection)
StoreConnection(conns, connection) ==
  IF \E i \in 1..Len(conns) : conns[i].id = connection.id
  THEN [i \in 1..Len(conns) |->
          IF conns[i].id = connection.id THEN connection ELSE conns[i]]
  ELSE Append(conns, connection)

\* what a ConnectionManager method leaves: the manager, the terminals'
\* status, the connection or boolean returned and the text of console.warn
Outcome(m, status, connection, removed, warning) ==
  [manager |-> m, status |-> status, connection |-> connection,
   removed |-> removed, warning |-> warning]

\* completeWireDrawing(endPoint, components); id is the new connection's id
completeWireDrawing(m, status, endPoint, id) ==
  IF ~m.wireDrawingState.isDrawing \/ m.wireDrawingState.startPoint = NoPoint
  THEN Outcome(m, status, NullConnection, FALSE, "")
  ELSE
    LET startPoint == m.wireDrawingState.startPoint
        validation == validateConnection(startPoint, endPoint, m.connections, status)
        connection == Connection(id, startPoint.componentId, startPoint.terminalId,
                                 endPoint.componentId, endPoint.terminalId)
        stored == [m EXCEPT !.connections = StoreConnection(@, connection)]
        started == [status EXCEPT ![PointKey(startPoint)] =
                      [connected |-> TRUE, connectionId |-> id]]
        ended == [started EXCEPT ![PointKey(endPoint)] =
                    [connected |-> TRUE, connectionId |-> id]]
    IN  IF ~validation.isValid
        THEN Outcome(cancelWireDrawing(m), status, NullConnection, FALSE,
                     validation.error)
        ELSE Outcome(cancelWireDrawing(stored), ended, connection, FALSE, "")

\* a variant of removeConnection that resets the from terminal only
removeConnectionFromOnly(m, status, connectionId) ==
  IF ~\E i \in 1..Len(m.connections) : m.connections[i].id = connectionId
  THEN Outcome(m, status, NullConnection, FALSE, "")
  ELSE
    LET connection == m.connections[CHOOSE i \in 1..Len(m.connections) :
                                      m.connections[i].id = connectionId]
    IN  Outcome([m EXCEPT !.connections = SelectSeq(@, LAMBDA c : c.id # connectionId)],
                [status EXCEPT ![FromKey(connection)] =
                   [connected |-> FALSE, connectionId |-> ""]],
                NullConnection, TRUE, "")

\* removeConnection(connectionId, components)
removeConnection(m, status, connectionId) ==
  IF ~\E i \in 1..Len(m.connections) : m.connections[i].id = connectionId
  THEN Outcome(m, status, NullConnection, FALSE, "")
  ELSE
    LET connection == m.connections[CHOOSE i \in 1..Len(m.connections) :
                                      m.connections[i].id = connectionId]
        Reset(s, key) ==
          IF key \in DOMAIN s
          THEN [s EXCEPT ![key] = [connected |-> FALSE, connectionId |-> ""]]
          ELSE s
    IN  Outcome([m EXCEPT !.connections = SelectSeq(@, LAMBDA c : c.id # connectionId)],
                Reset(Reset(status, FromKey(connection)), ToKey(connection)),
                NullConnection, TRUE, "")

\* clearAllConnections(components)
clearAllConnections(m, status) ==
  Outcome([m EXCEPT !.connections = <<>>],
          [key \in DOMAIN status |-> [connected |-> FALSE, connectionId |-> ""]],
          NullConnection, FALSE, "")

\* no ConnectionManager method has been called
NotCalled ==
  [op |-> "new", startPoint |-> NoPoint, endPoint |-> NoPoint,
   connection |-> NullConnection, removed |-> FALSE, warning |-> ""]

---------------------------------------------------------------------------
(* The caller: a board that holds a battery and a row of components, draws *)
(* the wires of a series loop, of a parallel bank or of a daisy-chained    *)
(* bank one at a time, and then runs the validator and the simulator.      *)

ComponentIds == <<"x1", "x2", "x3", "x4", "x5", "x6", "x7", "x8", "x9", "x10">>

ConnectionIds ==
  <<"conn1", "conn2", "conn3", "conn4", "conn5", "conn6", "conn7", "conn8",
    "conn9", "conn10", "conn11", "conn12", "conn13", "conn14", "conn15",
    "conn16", "conn17", "conn18", "conn19", "conn20">>

BatteryId == "battery1"

Kinds == {"r100", "r200", "rlow", "wire", "led"}

UniformKinds == {"r100", "wire"}

Voltages == {1, 9}

\* the component of a kind: resistors of 100, 200 and 1/4 ohm, a wire, an LED
\* with the default forward voltage
MakeComponent(kind, id) ==
  IF kind = "r100" THEN Resistor(id, Rat(100))
  ELSE IF kind = "r200" THEN Resistor(id, Rat(200))
  ELSE IF kind = "rlow" THEN Resistor(id, <<1, 4>>)
  ELSE IF kind = "wire" THEN Wire(id)
  ELSE LED(id, Rat(DefaultForwardVoltage))

KindSequences ==
  UNION { [1..n -> Kinds] : n \in 1..MaxMixed } \cup
  { [i \in 1..n |-> k] : n \in (MaxMixed + 1)..MaxUniform, k \in UniformKinds }

Board(voltage, kinds) ==
  <<Battery(BatteryId, Rat(voltage))>> \o
  [i \in 1..Len(kinds) |-> MakeComponent(kinds[i], ComponentIds[i])]

First(c) == getTerminals(c)[1].id
Second(c) == getTerminals(c)[2].id

\* battery+ -> x1 -> x2 -> ... -> xn -> battery-
SeriesPlan(board) ==
  LET xs == Tail(board)
      n == Len(xs)
  IN  [i \in 1..(n + 1) |->
         IF i = 1
         THEN Connection(ConnectionIds[1], BatteryId, "positive", xs[1].id, First(xs[1]))
         ELSE IF i = n + 1
         THEN Connection(ConnectionIds[i], xs[n].id, Second(xs[n]), BatteryId, "negative")
         ELSE Connection(ConnectionIds[i], xs[i - 1].id, Second(xs[i - 1]),
                         xs[i].id, First(xs[i]))]

\* every xi across the battery: battery+ -> xi, then xi -> battery-
ParallelPlan(board) ==
  LET xs == Tail(board)
      n == Len(xs)
  IN  [i \in 1..(2 * n) |->
         IF i <= n
         THEN Connection(ConnectionIds[i], BatteryId, "positive", xs[i].id, First(xs[i]))
         ELSE Connection(ConnectionIds[i], xs[i - n].id, Second(xs[i - n]),
                         BatteryId, "negative")]

\* a bank wired from terminal to terminal: battery+ -> x1, each xi joined to
\* x(i+1) at both ends, xn -> battery-
DaisyPlan(board) ==
  LET xs == Tail(board)
      n == Len(xs)
  IN  <<Connection(ConnectionIds[1], BatteryId, "positive", xs[1].id, First(xs[1]))>> \o
      Flatten([i \in 1..(n - 1) |->
        <<Connection(ConnectionIds[2 * i], xs[i].id, First(xs[i]),
                     xs[i + 1].id, First(xs[i + 1])),
          Connection(ConnectionIds[2 * i + 1], xs[i].id, Second(xs[i]),
                     xs[i + 1].id, Second(xs[i + 1]))>>]) \o
      <<Connection(ConnectionIds[2 * n], xs[n].id, Second(xs[n]), BatteryId, "negative")>>

\* the same wires drawn from the other end, each in the other direction
Backwards(conns) ==
  Reverse([i \in 1..Len(conns) |->
    Connection(conns[i].id, conns[i].toComponent, conns[i].toTerminal,
               conns[i].fromComponent, conns[i].fromTerminal)])

\* the wirings of a board: a long row of equal components is wired in series
Plans(board) ==
  LET base == {SeriesPlan(board)} \cup
              (IF Len(board) > 2 /\ Len(board) <= MaxMixed + 1
               THEN {ParallelPlan(board), DaisyPlan(board)} ELSE {})
  IN  base \cup { Backwards(p) : p \in base }

\* a component list without a battery, the empty list included
BareSequences == UNION { [1..n -> Kinds] : n \in 0..MaxMixed }

Bare(kinds) == [i \in 1..Len(kinds) |-> MakeComponent(kinds[i], ComponentIds[i])]

\* x1 -> x2 -> ... -> xn, no battery to close the row
LinePlan(board) ==
  [i \in 1..(Len(board) - 1) |->
     Connection(ConnectionIds[i], board[i].id, Second(board[i]),
                board[i + 1].id, First(board[i + 1]))]

\* a component id no component has, and a terminal id no component has
GhostId == "ghost"
NoTerminal == "nowhere"

\* a wiring that starts with a connection to a component or to a terminal
\* that does not exist
DanglingPlans(board, base) ==
  LET id == ConnectionIds[Len(base) + 1]
      wires ==
        IF board = <<>>
        THEN {Connection(id, GhostId, "terminal1", GhostId, "terminal2")}
        ELSE LET a == board[1]
                 z == board[Len(board)]
             IN  {Connection(id, a.id, First(a), GhostId, "terminal1"),
                  Connection(id, GhostId, "terminal1", a.id, First(a)),
                  Connection(id, a.id, First(a), z.id, NoTerminal)}
  IN  { <<w>> \o base : w \in wires }

\* a wiring that ends with connections that repeat its first connection, in
\* the same direction, in the other direction or in both, or with a
\* connection from a terminal to that same terminal
DoubledPlans(base) ==
  LET c == base[1]
      id1 == ConnectionIds[Len(base) + 1]
      id2 == ConnectionIds[Len(base) + 2]
      same(id) == Connection(id, c.fromComponent, c.fromTerminal,
                             c.toComponent, c.toTerminal)
      opposite(id) == Connection(id, c.toComponent, c.toTerminal,
                                 c.fromComponent, c.fromTerminal)
      self(id) == Connection(id, c.toComponent, c.toTerminal,
                             c.toComponent, c.toTerminal)
  IN  {base \o <<same(id1)>>, base \o <<opposite(id1)>>,
       base \o <<same(id1), opposite(id2)>>, base \o <<self(id1)>>}

SecondBatteryId == "battery2"

\* a board with two cells, of 1 V and of 1.5 V, before its row of components
TwinBoard(kinds) ==
  <<Battery(BatteryId, Rat(1)), Battery(SecondBatteryId, <<3, 2>>)>> \o
  [i \in 1..Len(kinds) |-> MakeComponent(kinds[i], ComponentIds[i])]

\* the two cells in series around the row:
\* battery1+ -> x1 -> ... -> xn -> battery2-, battery2+ -> battery1-
TwinPlan(board) ==
  LET xs == Tail(Tail(board))
      n == Len(xs)
  IN  [i \in 1..(n + 2) |->
         IF i = 1
         THEN Connection(ConnectionIds[1], BatteryId, "positive", xs[1].id, First(xs[1]))
         ELSE IF i = n + 1
         THEN Connection(ConnectionIds[i], xs[n].id, Second(xs[n]),
                         SecondBatteryId, "negative")
         ELSE IF i = n + 2
         THEN Connection(ConnectionIds[i], SecondBatteryId, "positive",
                         BatteryId, "negative")
         ELSE Connection(ConnectionIds[i], xs[i - 1].id, Second(xs[i - 1]),
                         xs[i].id, First(xs[i]))]

\* the rows of a two-cell board
TwinSequences == UNION { [1..n -> Kinds] : n \in 1..MaxMixed }

Init ==
  /\ \/ \E v \in Voltages : \E kinds \in KindSequences :
          /\ components = Board(v, kinds)
          /\ plan \in Plans(Board(v, kinds)) \cup
                      (IF Len(kinds) <= MaxMixed
                       THEN DanglingPlans(Board(v, kinds), SeriesPlan(Board(v, kinds)))
                              \cup DoubledPlans(SeriesPlan(Board(v, kinds)))
                       ELSE {})
     \/ \E kinds \in TwinSequences :
          /\ components = TwinBoard(kinds)
          /\ plan = TwinPlan(TwinBoard(kinds))
     \/ \E kinds \in BareSequences :
          /\ components = Bare(kinds)
          /\ plan \in {LinePlan(Bare(kinds))} \cup
                      DanglingPlans(Bare(kinds), LinePlan(Bare(kinds)))
  /\ connections = <<>>
  /\ errorCounter = 0
  /\ clock = 0
  /\ vOut = <<>>
  /\ sOut = <<>>
  /\ preSim = components
  /\ manager = NewConnectionManager
  /\ terminalStatus = FreshStatus(components)
  /\ returned = NotCalled
  /\ drawn = 0

\* the caller draws the next wire; wiring is done before analysis starts
Connect ==
  /\ plan # <<>>
  /\ vOut = <<>> /\ sOut = <<>>
  /\ connections' = Append(connections, Head(plan))
  /\ plan' = Tail(plan)
  /\ preSim' = components
  /\ UNCHANGED <<components, errorCounter, clock, vOut, sOut>>
  /\ UNCHANGED managerVars

\* validator.validateCircuit(components, connections)
Validate ==
  /\ Len(vOut) + Len(sOut) < MaxCalls
  /\ \E now \in clock..MaxClock :
       LET result == validateCircuit(components, connections, errorCounter, now)
       IN  /\ clock' = now
           /\ vOut' = Append(vOut, result)
           /\ errorCounter' = errorCounter + Len(result.errors) +
                              Len(result.warnings) + Len(result.info)
  /\ UNCHANGED <<components, connections, plan, sOut, preSim>>
  /\ UNCHANGED managerVars

\* simulator.simulate(components, connections)
Simulate ==
  /\ Len(vOut) + Len(sOut) < MaxCalls
  /\ LET r == simulate(components, connections)
     IN  /\ sOut' = Append(sOut, r.result)
         /\ components' = r.components
  /\ preSim' = components
  /\ UNCHANGED <<connections, plan, errorCounter, clock, vOut>>
  /\ UNCHANGED managerVars

Next == Connect \/ Validate \/ Simulate

Spec == Init /\ [][Next]_vars

---------------------------------------------------------------------------
(* The wire tool: clicks on terminals start and complete wires, a click on *)
(* the empty canvas cancels, and connections are removed one by one or all *)
(* at once, always with the same component list.                           *)

\* resistor1, battery1 and led1 of the ConnectionManager tests
ManagerBoard ==
  <<Resistor("resistor1", Rat(1000)), Battery(BatteryId, Rat(9)),
    LED("led1", Rat(DefaultForwardVoltage))>>

MousePositions == {<<"canvas", 1>>, <<"canvas", 2>>}

\* an id no stored connection has
MissingId == "missing"

ManagerInit ==
  /\ components = ManagerBoard
  /\ connections = <<>>
  /\ plan = <<>>
  /\ errorCounter = 0
  /\ clock = 0
  /\ vOut = <<>>
  /\ sOut = <<>>
  /\ preSim = components
  /\ manager = NewConnectionManager
  /\ terminalStatus = FreshStatus(components)
  /\ returned = NotCalled
  /\ drawn = 0

StartWireDrawing ==
  /\ \E point \in Points(components) :
       /\ manager' = startWireDrawing(manager, point)
       /\ returned' = [NotCalled EXCEPT !.op = "startWireDrawing", !.startPoint = point]
  /\ UNCHANGED <<terminalStatus, drawn>>
  /\ UNCHANGED boardVars

UpdateWireDrawing ==
  /\ \E mousePosition \in MousePositions :
       manager' = updateWireDrawing(manager, mousePosition)
  /\ returned' = [NotCalled EXCEPT !.op = "updateWireDrawing"]
  /\ UNCHANGED <<terminalStatus, drawn>>
  /\ UNCHANGED boardVars

CompleteWireDrawing ==
  /\ \E endPoint \in Points(components) :
       LET outcome == completeWireDrawing(manager, terminalStatus, endPoint,
                                          ConnectionIds[drawn + 1])
       IN  /\ outcome.connection # NullConnection => drawn < MaxDrawn
           /\ manager' = outcome.manager
           /\ terminalStatus' = outcome.status
           /\ drawn' = IF outcome.connection # NullConnection THEN drawn + 1 ELSE drawn
           /\ returned' = [op |-> "completeWireDrawing",
                           startPoint |-> manager.wireDrawingState.startPoint,
                           endPoint |-> endPoint,
                           connection |-> outcome.connection,
                           removed |-> FALSE,
                           warning |-> outcome.warning]
  /\ UNCHANGED boardVars

CancelWireDrawing ==
  /\ manager' = cancelWireDrawing(manager)
  /\ returned' = [NotCalled EXCEPT !.op = "cancelWireDrawing"]
  /\ UNCHANGED <<terminalStatus, drawn>>
  /\ UNCHANGED boardVars

RemoveConnection ==
  /\ \E connectionId \in { manager.connections[i].id : i \in 1..Len(manager.connections) }
                         \cup {MissingId} :
       LET outcome == removeConnection(manager, terminalStatus, connectionId)
       IN  /\ manager' = outcome.manager
           /\ terminalStatus' = outcome.status
           /\ returned' = [NotCalled EXCEPT !.op = "removeConnection",
                                            !.removed = outcome.removed]
  /\ UNCHANGED drawn
  /\ UNCHANGED boardVars

ClearAllConnections ==
  /\ LET outcome == clearAllConnections(manager, terminalStatus)
     IN  /\ manager' = outcome.manager
         /\ terminalStatus' = outcome.status
  /\ returned' = [NotCalled EXCEPT !.op = "clearAllConnections"]
  /\ UNCHANGED drawn
  /\ UNCHANGED boardVars

ManagerNext ==
  \/ StartWireDrawing
  \/ UpdateWireDrawing
  \/ CompleteWireDrawing
  \/ CancelWireDrawing
  \/ RemoveConnection
  \/ ClearAllConnections

ManagerSpec == ManagerInit /\ [][ManagerNext]_vars

---------------------------------------------------------------------------
(* Circuit shapes the properties speak of, stated on the components and    *)
(* connections alone.                                                      *)

Batteries == OfType(components, "battery")
Resistors == OfType(components, "resistor")

\* some connection joins the two terminal keys, in either direction
Joined(k1, k2) ==
  \E i \in 1..Len(connections) :
    \/ (FromKey(connections[i]) = k1 /\ ToKey(connections[i]) = k2)
    \/ (FromKey(connections[i]) = k2 /\ ToKey(connections[i]) = k1)

\* the connection ends at a terminal key
Degree(k) == EndCount(connections, k)

TerminalKeys(c) == { <<c.id, c.terminals[i].id>> : i \in 1..Len(c.terminals) }

\* the other terminal key of a two-terminal component
Across(k) ==
  LET c == FindComponent(components, k[1])
  IN  IF c.terminals[1].id = k[2] THEN <<c.id, c.terminals[2].id>>
      ELSE <<c.id, c.terminals[1].id>>

\* the keys a terminal is wired to directly
Neighbours(k) ==
  { x \in UNION { TerminalKeys(components[i]) : i \in 1..Len(components) } :
      Joined(k, x) }

\* the series chains that join a battery's terminals: sequences of distinct
\* components x1..xm with battery+ wired to a terminal of x1, the other
\* terminal of each xi wired to a terminal of x(i+1), and the other terminal
\* of xm wired to battery-.  The set of chains that lead on from terminal k.
RECURSIVE ChainsFrom(_, _, _)
ChainsFrom(b, k, used) ==
  (IF Joined(k, <<b, "negative">>) /\ used # {} THEN {<<>>} ELSE {}) \cup
  UNION { { <<x[1]>> \o rest : rest \in ChainsFrom(b, Across(x), used \cup {x[1]}) } :
          x \in { y \in Neighbours(k) : y[1] # b /\ y[1] \notin used } }

Chains(b) == ChainsFrom(b, <<b, "positive">>, {})

\* one battery and n >= 1 resistors, every terminal with one wire, all in
\* one loop: battery+ -> R1 -> ... -> Rn -> battery-
IsSeriesResistorLoop ==
  /\ Len(Batteries) = 1
  /\ Len(Resistors) = Len(components) - 1
  /\ Len(Resistors) >= 1
  /\ Len(connections) = Len(components)
  /\ \A i \in 1..Len(components) : \A k \in TerminalKeys(components[i]) : Degree(k) = 1
  /\ \A i \in 1..Len(connections) :
       connections[i].fromComponent # connections[i].toComponent
  /\ \E c \in Chains(Batteries[1].id) : Len(c) = Len(Resistors)

\* one battery and n >= 2 resistors, each resistor with one terminal wired to
\* battery+ and the other to battery-, and no other wire
IsParallelBank ==
  /\ Len(Batteries) = 1
  /\ Len(Resistors) = Len(components) - 1
  /\ Len(Resistors) >= 2
  /\ Len(connections) = 2 * Len(Resistors)
  /\ \A i \in 1..Len(Resistors) :
       \E k \in TerminalKeys(Resistors[i]) :
         /\ Joined(k, <<Batteries[1].id, "positive">>)
         /\ Joined(Across(k), <<Batteries[1].id, "negative">>)
         /\ Degree(k) = 1 /\ Degree(Across(k)) = 1

\* the value of a component's resistance property
ResistanceOf(c) == c.properties.resistance
VoltageOf(c) == c.properties.voltage

\* the faults of a type among a list of faults
OfFaultType(faults, type) == SelectSeq(faults, LAMBDA f : f.type = type)

---------------------------------------------------------------------------
(* Properties.  Wiring stops when the first analysis call is made, so      *)
(* every result in vOut and sOut is a result for the connections as they   *)
(* stand.                                                                  *)

\* C1: for one battery of voltage V and N >= 1 resistors in a single series
\* loop, simulate returns isValid = true, every resistor has the current
\* V / (R1 + ... + RN) and the voltage current x Ri, and the resistor
\* voltages sum to V.
C1_SeriesLoopLaw ==
  \A k \in 1..Len(sOut) :
    IsSeriesResistorLoop =>
      LET V == VoltageOf(Batteries[1])
          I == RDiv(V, RSum([i \in 1..Len(Resistors) |-> ResistanceOf(Resistors[i])]))
          states == sOut[k].componentStates
      IN  /\ sOut[k].isValid
          /\ \A i \in 1..Len(Resistors) :
               /\ HasState(states, Resistors[i].id)
               /\ StateOf(states, Resistors[i].id).current = I
               /\ StateOf(states, Resistors[i].id).voltage =
                    RMul(I, ResistanceOf(Resistors[i]))
          /\ RSum([i \in 1..Len(Resistors) |->
                     StateOf(states, Resistors[i].id).voltage]) = V

\* The electrical node of a terminal: the terminals wired to it over any
\* number of connections.
RECURSIVE NodeClosure(_)
NodeClosure(s) ==
  LET next == s \cup UNION { Neighbours(k) : k \in s }
  IN  IF next = s THEN s ELSE NodeClosure(next)

NodeOfKey(k) == NodeClosure({k})

\* the nodes a current leaving the nodes in s reaches through one
\* two-terminal component other than battery b
RECURSIVE ConductingReach(_, _)
ConductingReach(b, s) ==
  LET through == { Across(k) : k \in { x \in s : x[1] # b } }
      next == s \cup UNION { NodeOfKey(k) : k \in through }
  IN  IF next = s THEN s ELSE ConductingReach(b, next)

\* a complete conducting path links battery b's terminals: leaving the
\* positive terminal's node through at least one component, the negative
\* terminal is reached
HasConductingPath(b) ==
  LET start == { Across(k) : k \in { x \in NodeOfKey(<<b, "positive">>) : x[1] # b } }
  IN  <<b, "negative">> \in
        ConductingReach(b, UNION { NodeOfKey(k) : k \in start })

\* an open_circuit error for battery b is among the errors
HasOpenCircuitError(result, b) ==
  \E i \in 1..Len(result.errors) :
    /\ result.errors[i].type = "open_circuit"
    /\ Contains(result.errors[i].affectedComponents, b)

\* C2: a battery whose terminals are linked by a complete conducting path
\* through electrical nodes gets no open_circuit error from validateCircuit.
C2_PathMeansNoOpenCircuit ==
  \A k \in 1..Len(vOut) : \A i \in 1..Len(Batteries) :
    HasConductingPath(Batteries[i].id) => ~HasOpenCircuitError(vOut[k], Batteries[i].id)

\* a battery and one resistor, and one wire from a battery terminal to the
\* resistor
IsOneSidedResistor ==
  /\ Len(components) = 2
  /\ Len(Batteries) = 1 /\ Len(Resistors) = 1
  /\ Len(connections) = 1
  /\ {connections[1].fromComponent, connections[1].toComponent} =
       {Batteries[1].id, Resistors[1].id}
  /\ {FromKey(connections[1]), ToKey(connections[1])} \subseteq
       TerminalKeys(Batteries[1]) \cup TerminalKeys(Resistors[1])

\* C3: for a battery with one resistor wired to only one of its terminals,
\* simulate returns isValid = false with an open-circuit message among the
\* errors, and no component has a non-zero current.
C3_OneSidedIsOpenCircuit ==
  \A k \in 1..Len(sOut) :
    IsOneSidedResistor =>
      /\ ~sOut[k].isValid
      /\ \E i \in 1..Len(sOut[k].errors) : sOut[k].errors[i][1] = "Open circuit"
      /\ \A i \in 1..Len(sOut[k].componentStates) :
           sOut[k].componentStates[i].current = Zero

\* a chain that the short-circuit search can walk: the path battery, x1, ...,
\* xm, battery has at most MaxPathLength entries
WithinSearchCap(chain) == Len(chain) + 2 <= MaxPathLength

\* the summed resistance of a chain of wires and resistors: a resistor counts
\* its resistance value, a wire 0.01 ohm
ChainResistance(chain) ==
  RSum([i \in 1..Len(chain) |->
          IF TypeOf(components, chain[i]) = "wire" THEN <<1, 100>>
          ELSE ResistanceOf(FindComponent(components, chain[i]))])

\* a series chain of wires and resistors from battery+ to battery- whose
\* summed resistance is below 1 ohm
IsShortChain(chain) ==
  /\ chain # <<>>
  /\ \A i \in 1..Len(chain) : TypeOf(components, chain[i]) \in {"wire", "resistor"}
  /\ RLt(ChainResistance(chain), One)

NodesHolding(nodes, key) == SelectSeq(nodes, LAMBDA n : Contains(n.terminals, key))

\* C5: in the nodes of a valid simulate result the ground node has voltage 0;
\* a battery whose negative terminal is in ground has its voltage on the node
\* of its positive terminal, and a battery whose positive terminal is in
\* ground has minus its voltage on the node of its negative terminal.
C5_NodeVoltages ==
  \A k \in 1..Len(sOut) :
    sOut[k].isValid =>
      LET nodes == sOut[k].nodes
          InGround(key) == \E n \in Range(NodesHolding(nodes, key)) : n.id = Ground
      IN  /\ \A n \in Range(nodes) : n.id = Ground => n.voltage = Zero
          /\ \A i \in 1..Len(Batteries) :
               LET b == Batteries[i]
               IN  /\ InGround(<<b.id, "negative">>) =>
                         \A n \in Range(NodesHolding(nodes, <<b.id, "positive">>)) :
                           n.id = Ground \/ n.voltage = VoltageOf(b)
                   /\ InGround(<<b.id, "positive">>) =>
                         \A n \in Range(NodesHolding(nodes, <<b.id, "negative">>)) :
                           n.id = Ground \/ n.voltage = RSub(Zero, VoltageOf(b))

\* C6: after a simulate call every component has the property values it had
\* before the call.
C6_SimulateLeavesComponents ==
  \A i \in 1..Len(components) : components[i].properties = preSim[i].properties

\* C7: two validateCircuit calls, and two simulate calls, on unchanged
\* components and connections return identical output.
C7_SameOutputTwice ==
  /\ Len(vOut) >= 2 => vOut[1] = vOut[2]
  /\ Len(sOut) >= 2 => sOut[1] = sOut[2]

\* a battery and other components, none of them a wire, and no connection
IsUnwiredBoard ==
  /\ Len(Batteries) >= 1
  /\ Len(components) > Len(Batteries)
  /\ \A i \in 1..Len(components) : components[i].type # "wire"
  /\ connections = <<>>

\* C8: for a battery with other non-wire components and no connections
\* validateCircuit returns isValid = true with no errors and exactly one
\* disconnected_component warning per component.
C8_UnwiredBoardIsValid ==
  \A k \in 1..Len(vOut) :
    IsUnwiredBoard =>
      /\ vOut[k].isValid
      /\ vOut[k].errors = <<>>
      /\ \A i \in 1..Len(components) :
           Len(SelectSeq(OfFaultType(vOut[k].warnings, "disconnected_component"),
                         LAMBDA f : f.affectedComponents = <<components[i].id>>)) = 1
      /\ Len(OfFaultType(vOut[k].warnings, "disconnected_component")) = Len(components)

\* the open_circuit errors of a result that name battery b alone
OpenCircuitErrorsOf(result, b) ==
  SelectSeq(OfFaultType(result.errors, "open_circuit"),
            LAMBDA f : f.affectedComponents = <<b>>)

\* C9: a battery with no chain of connections through components from its
\* positive to its negative terminal makes validateCircuit return
\* isValid = false with exactly one open_circuit error naming that battery;
\* a battery with such a chain gets none.
C9_OpenCircuitPerBattery ==
  \A k \in 1..Len(vOut) : \A i \in 1..Len(Batteries) :
    LET b == Batteries[i].id
    IN  IF Chains(b) = {}
        THEN ~vOut[k].isValid /\ Len(OpenCircuitErrorsOf(vOut[k], b)) = 1
        ELSE ~HasOpenCircuitError(vOut[k], b)

\* C10: for one battery of voltage V and N >= 2 resistors each wired across
\* the battery's terminals, simulate gives every resistor the voltage V and
\* the current V / Ri.
C10_ParallelBankLaw ==
  \A k \in 1..Len(sOut) :
    IsParallelBank =>
      \A i \in 1..Len(Resistors) :
        /\ HasState(sOut[k].componentStates, Resistors[i].id)
        /\ StateOf(sOut[k].componentStates, Resistors[i].id).voltage =
             VoltageOf(Batteries[1])
        /\ StateOf(sOut[k].componentStates, Resistors[i].id).current =
             RDiv(VoltageOf(Batteries[1]), ResistanceOf(Resistors[i]))

\* simulate has run on a bank of resistors of different values
C10_Witness ==
  /\ Len(sOut) >= 1
  /\ IsParallelBank
  /\ \E i, j \in 1..Len(Resistors) :
       ResistanceOf(Resistors[i]) # ResistanceOf(Resistors[j])

\* C11: with a battery among the components and no connections, simulate
\* returns no nodes, and every state of a component other than a battery has
\* voltage 0 and current 0 and is not active.
C11_NoConnectionsAllZero ==
  \A k \in 1..Len(sOut) :
    connections = <<>> /\ Len(Batteries) >= 1 =>
      /\ sOut[k].nodes = <<>>
      /\ \A i \in 1..Len(sOut[k].componentStates) :
           LET state == sOut[k].componentStates[i]
           IN  TypeOf(components, state.componentId) # "battery" =>
                 state.voltage = Zero /\ state.current = Zero /\ ~state.isActive

Leds == OfType(components, "led")

\* one battery, one resistor and one LED, every terminal with one wire, all
\* in one loop
IsLedLoop ==
  /\ Len(components) = 3
  /\ Len(Batteries) = 1 /\ Len(Resistors) = 1 /\ Len(Leds) = 1
  /\ Len(connections) = 3
  /\ \A i \in 1..Len(components) : \A k \in TerminalKeys(components[i]) : Degree(k) = 1
  /\ \E c \in Chains(Batteries[1].id) : Len(c) = 2

\* C12: in a loop of one battery, one resistor and one LED, a battery voltage
\* below the LED's forward voltage gives the LED current 0, isActive = false
\* and brightness 0, and the resistor and the battery current 0; a battery
\* voltage above it gives an active LED with a positive current and a
\* brightness in (0, 1].
C12_LedThreshold ==
  \A k \in 1..Len(sOut) :
    IsLedLoop =>
      LET states == sOut[k].componentStates
          V == VoltageOf(Batteries[1])
          Vf == Leds[1].properties.forwardVoltage
          led == StateOf(states, Leds[1].id)
      IN  /\ \A i \in 1..Len(components) : HasState(states, components[i].id)
          /\ RLt(V, Vf) =>
               /\ led.current = Zero /\ ~led.isActive
               /\ led.additionalProperties.brightness = Zero
               /\ StateOf(states, Resistors[1].id).current = Zero
               /\ StateOf(states, Batteries[1].id).current = Zero
          /\ RLt(Vf, V) =>
               /\ led.isActive /\ RLt(Zero, led.current)
               /\ RLt(Zero, led.additionalProperties.brightness)
               /\ RLe(led.additionalProperties.brightness, One)

\* simulate has run on a loop whose battery is too weak for the LED
C12_Witness ==
  /\ Len(sOut) >= 1
  /\ IsLedLoop
  /\ RLt(VoltageOf(Batteries[1]), Leds[1].properties.forwardVoltage)

\* the terminal keys that occur as an end of a connection
ConnectionKeys ==
  { FromKey(connections[i]) : i \in 1..Len(connections) } \cup
  { ToKey(connections[i]) : i \in 1..Len(connections) }

\* the component ids of a node's terminals
ComponentsTouched(node) == { node.terminals[i][1] : i \in 1..Len(node.terminals) }

\* C13: in a valid simulate result the nodes partition the terminal keys that
\* end a connection: each key is in exactly one node, two keys are in the
\* same node if and only if a chain of connections links them, and a node's
\* components are exactly the component ids of its terminals.
C13_NodesPartitionKeys ==
  \A k \in 1..Len(sOut) :
    sOut[k].isValid =>
      LET nodes == sOut[k].nodes
          Holders(key) == { i \in 1..Len(nodes) : Contains(nodes[i].terminals, key) }
      IN  /\ \A key \in ConnectionKeys : Cardinality(Holders(key)) = 1
          /\ \A i \in 1..Len(nodes) :
               /\ nodes[i].terminals # <<>>
               /\ Range(nodes[i].terminals) \subseteq ConnectionKeys
               /\ Cardinality(Range(nodes[i].terminals)) = Len(nodes[i].terminals)
               /\ Range(nodes[i].components) = ComponentsTouched(nodes[i])
               /\ Cardinality(Range(nodes[i].components)) = Len(nodes[i].components)
          /\ \A k1, k2 \in ConnectionKeys :
               (Holders(k1) = Holders(k2)) <=> (k2 \in NodeOfKey(k1))

\* a valid simulate result in which a node joins terminals that no single
\* connection joins
C13_Witness ==
  /\ Len(sOut) >= 1
  /\ sOut[1].isValid
  /\ \E n \in Range(sOut[1].nodes) : \E k1, k2 \in Range(n.terminals) :
       k1 # k2 /\ ~Joined(k1, k2)

\* the nodes in the order the builder holds them before it picks the ground
BuilderOrder == MergeAll(InitialGroups(connections), connections)

\* the place of a node in the builder's order
PlaceOf(node) ==
  CHOOSE i \in 1..Len(BuilderOrder) :
    Range(BuilderOrder[i].terminals) = Range(node.terminals)

\* C14: a valid simulate result for at least one connection has exactly one
\* node with id 'ground'; its voltage is 0, no node touches more distinct
\* components than it does, and of the nodes that touch as many it is the
\* first in the builder's node order.
C14_GroundChoice ==
  \A k \in 1..Len(sOut) :
    sOut[k].isValid /\ Len(connections) >= 1 =>
      LET nodes == sOut[k].nodes
          grounds == SelectSeq(nodes, LAMBDA n : n.id = Ground)
      IN  /\ Len(grounds) = 1
          /\ grounds[1].voltage = Zero
          /\ \A n \in Range(nodes) :
               /\ Cardinality(ComponentsTouched(n)) <=
                    Cardinality(ComponentsTouched(grounds[1]))
               /\ (n.id # Ground /\ Cardinality(ComponentsTouched(n)) =
                                     Cardinality(ComponentsTouched(grounds[1])))
                    => PlaceOf(grounds[1]) < PlaceOf(n)

\* a valid simulate result in which another node touches as many components
\* as the ground
C14_Witness ==
  /\ Len(sOut) >= 1
  /\ sOut[1].isValid
  /\ \E n, g \in Range(sOut[1].nodes) :
       /\ g.id = Ground /\ n.id # Ground
       /\ Cardinality(ComponentsTouched(n)) = Cardinality(ComponentsTouched(g))

\* the terminal keys the components have
AllTerminalKeys == UNION { TerminalKeys(components[i]) : i \in 1..Len(components) }

\* a connection that names a component or a terminal that does not exist
IsDangling(c) == FromKey(c) \notin AllTerminalKeys \/ ToKey(c) \notin AllTerminalKeys

\* C15: every simulate result has isValid = true if and only if errors is
\* empty, and has no nodes and no component states when isValid = false; a
\* connection that names a nonexistent component or terminal gives
\* isValid = false with at least one error and no nodes and states.
C15_SimulateResultShape ==
  \A k \in 1..Len(sOut) :
    /\ sOut[k].isValid <=> (sOut[k].errors = <<>>)
    /\ ~sOut[k].isValid => sOut[k].nodes = <<>> /\ sOut[k].componentStates = <<>>
    /\ (\E i \in 1..Len(connections) : IsDangling(connections[i])) =>
         /\ ~sOut[k].isValid
         /\ Len(sOut[k].errors) >= 1
         /\ sOut[k].nodes = <<>> /\ sOut[k].componentStates = <<>>

\* simulate has run on connections of which one names a terminal that does
\* not exist and another is sound
C15_Witness ==
  /\ Len(sOut) >= 1
  /\ \E i, j \in 1..Len(connections) :
       /\ IsDangling(connections[i])
       /\ HasComponent(components, connections[i].toComponent)
       /\ HasComponent(components, connections[i].fromComponent)
       /\ ~IsDangling(connections[j])

\* C16: for components without a battery, the empty list included, and
\* connections that name existing components and terminals, simulate returns
\* isValid = false, the error that the circuit must contain a voltage source,
\* and no nodes and no component states.
C16_NoBatteryRejected ==
  \A k \in 1..Len(sOut) :
    (Len(Batteries) = 0 /\ \A i \in 1..Len(connections) : ~IsDangling(connections[i])) =>
      /\ ~sOut[k].isValid
      /\ Contains(sOut[k].errors, NoSourceError)
      /\ sOut[k].nodes = <<>> /\ sOut[k].componentStates = <<>>

\* simulate has run on connected components without a battery
C16_Witness ==
  /\ Len(sOut) >= 1
  /\ Len(Batteries) = 0
  /\ Len(connections) >= 1
  /\ \A i \in 1..Len(connections) : ~IsDangling(connections[i])

\* the faults of a validateCircuit result, list after list
AllFaults(result) == result.errors \o result.warnings \o result.info

\* C17: every validateCircuit result has isValid = true if and only if its
\* errors list is empty, whatever its warnings and info, and holds every
\* fault the checks find exactly once, in the list of its severity.
C17_ValidIffNoErrors ==
  \A k \in 1..Len(vOut) :
    /\ vOut[k].isValid <=> (vOut[k].errors = <<>>)
    /\ \A f \in Range(vOut[k].errors) : f.severity = "error"
    /\ \A f \in Range(vOut[k].warnings) : f.severity = "warning"
    /\ \A f \in Range(vOut[k].info) : f.severity = "info"
    /\ Len(AllFaults(vOut[k])) = Len(AllChecks(components, connections))
    /\ \A i, j \in 1..Len(AllFaults(vOut[k])) :
         i # j => AllFaults(vOut[k])[i].id # AllFaults(vOut[k])[j].id

\* a valid validateCircuit result that has warnings and info
C17_Witness ==
  /\ Len(vOut) >= 1
  /\ vOut[1].isValid
  /\ vOut[1].warnings # <<>>
  /\ vOut[1].info # <<>>

InvalidConnectionErrorsOf(result, id) ==
  SelectSeq(OfFaultType(result.errors, "invalid_connection"),
            LAMBDA f : f.affectedConnections = <<id>>)

\* C19: validateCircuit gives exactly one invalid_connection error for each
\* connection that names a nonexistent component or terminal, and none for
\* any other connection.
C19_InvalidConnections ==
  \A k \in 1..Len(vOut) :
    /\ \A i \in 1..Len(connections) :
         Len(InvalidConnectionErrorsOf(vOut[k], connections[i].id)) =
           (IF IsDangling(connections[i]) THEN 1 ELSE 0)
    /\ Len(OfFaultType(AllFaults(vOut[k]), "invalid_connection")) =
         Cardinality({ i \in 1..Len(connections) : IsDangling(connections[i]) })

\* validateCircuit has run on connections of which one names a terminal that
\* does not exist and another is sound
C19_Witness ==
  /\ Len(vOut) >= 1
  /\ \E i, j \in 1..Len(connections) :
       /\ IsDangling(connections[i])
       /\ HasComponent(components, connections[i].toComponent)
       /\ HasComponent(components, connections[i].fromComponent)
       /\ ~IsDangling(connections[j])

\* one battery and other components, every terminal with one wire, all in one
\* loop: battery+ -> x1 -> ... -> xn -> battery-
IsSeriesLoop ==
  /\ Len(Batteries) = 1
  /\ Len(components) >= 2
  /\ Len(connections) = Len(components)
  /\ \A i \in 1..Len(connections) : ~IsDangling(connections[i])
  /\ \A i \in 1..Len(components) : \A k \in TerminalKeys(components[i]) : Degree(k) = 1
  /\ \E c \in Chains(Batteries[1].id) : Len(c) = Len(components) - 1

\* C20: a battery whose terminals are joined by one series loop of k
\* connections, for every k from 2 to 8, gets no open_circuit error from
\* validateCircuit.
C20_LoopsOfEightHops ==
  \A k \in 1..Len(vOut) :
    (IsSeriesLoop /\ Len(connections) >= 2 /\ Len(connections) <= 8) =>
      ~HasOpenCircuitError(vOut[k], Batteries[1].id)

\* C21: in every valid simulate result, each component state's isActive flag
\* is true if and only if that state's current exceeds the tolerance 1e-9,
\* whatever the kind of the component (resistor, battery, LED, wire).
C21_ActiveIffCurrent ==
  \A k \in 1..Len(sOut) :
    sOut[k].isValid =>
      \A i \in 1..Len(sOut[k].componentStates) :
        sOut[k].componentStates[i].isActive <=>
          AboveTolerance(sOut[k].componentStates[i].current)

\* the sum of the voltages of all batteries over the sum of the resistances
\* of all resistors exceeds 20 mA
TotalCurrentExceedsLimit ==
  LET totalVoltage == RSum([i \in 1..Len(Batteries) |-> VoltageOf(Batteries[i])])
      totalResistance == RSum([i \in 1..Len(Resistors) |-> ResistanceOf(Resistors[i])])
  IN  /\ RLt(Zero, totalResistance)
      /\ RLt(MaxLEDCurrent, RDiv(totalVoltage, totalResistance))

\* C22: validateCircuit emits a component_overload warning for every LED
\* exactly when the sum of the voltages of all batteries divided by the sum of
\* all resistors' resistances (when positive) exceeds 0.02 A, and emits no
\* component_overload warning otherwise.
C22_OverloadByTotalVoltage ==
  \A k \in 1..Len(vOut) :
    LET overloads == OfFaultType(AllFaults(vOut[k]), "component_overload")
    IN  /\ \A f \in Range(overloads) : f.severity = "warning"
        /\ TotalCurrentExceedsLimit =>
             \A i \in 1..Len(Leds) :
               \E f \in Range(overloads) : f.affectedComponents = <<Leds[i].id>>
        /\ ~TotalCurrentExceedsLimit => overloads = <<>>

\* the unordered pair of terminal keys a connection joins
EndpointPair(c) == {FromKey(c), ToKey(c)}

\* the ids of the connections that join an unordered pair of terminal keys
JoiningIds(pair) ==
  { connections[i].id : i \in { j \in 1..Len(connections) :
                                  EndpointPair(connections[j]) = pair } }

\* the unordered pairs that two or more connections join
DoubledPairs ==
  { pair \in { EndpointPair(connections[i]) : i \in 1..Len(connections) } :
      Cardinality(JoiningIds(pair)) >= 2 }

\* the duplicate_connection faults of a result
DuplicateFaultsOf(result) == OfFaultType(AllFaults(result), "duplicate_connection")

\* C23: validateCircuit emits exactly one duplicate_connection warning for
\* each unordered pair of (component, terminal) endpoints that two or more
\* distinct connections join, and none for any other pair; in particular none
\* when every pair is joined by at most one connection, even if a connection
\* runs from a terminal to that same terminal.
C23_OneWarningPerDoubledPair ==
  \A k \in 1..Len(vOut) :
    LET dups == DuplicateFaultsOf(vOut[k])
    IN  /\ Len(dups) = Cardinality(DoubledPairs)
        /\ \A pair \in DoubledPairs :
             Cardinality({ i \in 1..Len(dups) :
               Range(dups[i].affectedConnections) = JoiningIds(pair) }) = 1
        /\ DoubledPairs = {} => dups = <<>>

\* C24: whenever two or more connections join the same unordered pair of
\* (component, terminal) endpoints, in the same or in opposite from/to
\* orientation, validateCircuit emits a duplicate_connection warning whose
\* affectedConnections holds the ids of all of those connections.
C24_DoubledPairWarned ==
  \A k \in 1..Len(vOut) :
    \A pair \in DoubledPairs :
      \E f \in Range(vOut[k].warnings) :
        /\ f.type = "duplicate_connection"
        /\ JoiningIds(pair) \subseteq Range(f.affectedConnections)

\* validateCircuit has run on connections of which two join one pair of
\* distinct terminals in opposite orientations
C24_Witness ==
  /\ Len(vOut) >= 1
  /\ \E i, j \in 1..Len(connections) :
       /\ FromKey(connections[i]) # ToKey(connections[i])
       /\ FromKey(connections[i]) = ToKey(connections[j])
       /\ ToKey(connections[i]) = FromKey(connections[j])

\* the endpoints that occur in exactly one connection end and belong to an
\* existing component that is not a wire
FloatingKeys ==
  { key \in ConnectionKeys :
      /\ Cardinality({ i \in 1..Len(connections) : FromKey(connections[i]) = key }) +
         Cardinality({ i \in 1..Len(connections) : ToKey(connections[i]) = key }) = 1
      /\ \E i \in 1..Len(components) :
           components[i].id = key[1] /\ components[i].type # "wire" }

SwapEnds(c) ==
  Connection(c.id, c.toComponent, c.toTerminal, c.fromComponent, c.fromTerminal)

\* the connection list reversed, with two neighbours exchanged, with every
\* connection turned round, and with one connection turned round
Rearrangements(conns) ==
  {Reverse(conns)} \cup
  {[i \in 1..Len(conns) |-> SwapEnds(conns[i])]} \cup
  { [i \in 1..Len(conns) |-> IF i = j THEN SwapEnds(conns[i]) ELSE conns[i]] :
      j \in 1..Len(conns) } \cup
  { [i \in 1..Len(conns) |->
       IF i = j THEN conns[j + 1] ELSE IF i = j + 1 THEN conns[j] ELSE conns[i]] :
      j \in 1..(Len(conns) - 1) }

\* the partition of terminals a list of nodes stands for
PartitionOf(nodes) == { Range(nodes[i].terminals) : i \in 1..Len(nodes) }

\* C26: connections are undirected for grouping: reordering the connection
\* list, or exchanging the from and to ends of any connection, does not change
\* the partition of terminals into nodes that simulate produces (node ids and
\* the ground among tied nodes may differ, the membership of the groups not).
C26_GroupingUndirected ==
  \A k \in 1..Len(sOut) :
    \A conns \in Rearrangements(connections) :
      PartitionOf(simulate(components, conns).result.nodes) = PartitionOf(sOut[k].nodes)

\* simulate has produced a node of three or more terminals, and a
\* rearrangement of the connections gives the same groups other ids
C26_Witness ==
  /\ Len(sOut) >= 1
  /\ \E i \in 1..Len(sOut[1].nodes) : Len(sOut[1].nodes[i].terminals) >= 3
  /\ \E conns \in Rearrangements(connections) :
       LET nodes == simulate(components, conns).result.nodes
       IN  \E i \in 1..Len(nodes) : \E j \in 1..Len(sOut[1].nodes) :
             /\ Range(nodes[i].terminals) = Range(sOut[1].nodes[j].terminals)
             /\ nodes[i].id # sOut[1].nodes[j].id

\* a variant of DirectExplored that does not pass over the connections the
\* path has used
RECURSIVE DirectExploredRevisiting(_, _, _, _, _, _, _)
DirectExploredRevisiting(startComponent, endTerminal, comps, conns, current, path, visited) ==
  LET adjacentNodes == Adjacent(conns, current)
      Step(e) ==
        IF FALSE THEN <<>>
        ELSE
          LET targetComponent == e.targetNode[1]
              targetTerminal == e.targetNode[2]
              newPath == Append(path, targetComponent)
              newVisited == Append(visited, e.connectionId)
              here == <<[path |-> newPath, visited |-> newVisited]>>
          IN  IF targetComponent = startComponent /\ targetTerminal = endTerminal
              THEN here
              ELSE IF Len(newPath) < MaxPathLength /\ HasComponent(comps, targetComponent)
              THEN LET terminals == getTerminals(FindComponent(comps, targetComponent))
                   IN  here \o
                       Flatten([j \in 1..Len(terminals) |->
                         IF terminals[j].id # targetTerminal
                         THEN DirectExploredRevisiting(startComponent, endTerminal, comps, conns,
                                             <<targetComponent, terminals[j].id>>,
                                             newPath, newVisited)
                         ELSE <<>>])
              ELSE here
  IN  Flatten([i \in 1..Len(adjacentNodes) |-> Step(adjacentNodes[i])])

\* the dfs closure of findDirectPaths, observed: every newPath it builds, with
\* newVisited as the list of connection ids in the order they were added
RECURSIVE DirectExplored(_, _, _, _, _, _, _)
DirectExplored(startComponent, endTerminal, comps, conns, current, path, visited) ==
  LET adjacentNodes == Adjacent(conns, current)
      Step(e) ==
        IF Contains(visited, e.connectionId) THEN <<>>
        ELSE
          LET targetComponent == e.targetNode[1]
              targetTerminal == e.targetNode[2]
              newPath == Append(path, targetComponent)
              newVisited == Append(visited, e.connectionId)
              here == <<[path |-> newPath, visited |-> newVisited]>>
          IN  IF targetComponent = startComponent /\ targetTerminal = endTerminal
              THEN here
              ELSE IF Len(newPath) < MaxPathLength /\ HasComponent(comps, targetComponent)
              THEN LET terminals == getTerminals(FindComponent(comps, targetComponent))
                   IN  here \o
                       Flatten([j \in 1..Len(terminals) |->
                         IF terminals[j].id # targetTerminal
                         THEN DirectExplored(startComponent, endTerminal, comps, conns,
                                             <<targetComponent, terminals[j].id>>,
                                             newPath, newVisited)
                         ELSE <<>>])
              ELSE here
  IN  Flatten([i \in 1..Len(adjacentNodes) |-> Step(adjacentNodes[i])])

\* the dfs closure of findCompletePaths, observed in the same way
RECURSIVE CompleteExplored(_, _, _, _, _, _, _)
CompleteExplored(batteryId, endTerminal, comps, conns, current, path, visited) ==
  LET adjacentNodes == Adjacent(conns, current)
      Step(e) ==
        IF Contains(visited, e.connectionId) THEN <<>>
        ELSE
          LET targetComponent == e.targetNode[1]
              targetTerminal == e.targetNode[2]
              newPath == Append(path, targetComponent)
              newVisited == Append(visited, e.connectionId)
              here == <<[path |-> newPath, visited |-> newVisited]>>
          IN  IF targetComponent = batteryId /\ targetTerminal = endTerminal
              THEN here
              ELSE IF /\ Len(newPath) < MaxPathLength
                      /\ ~Contains(path, targetComponent)
                      /\ HasComponent(comps, targetComponent)
              THEN LET terminals == getTerminals(FindComponent(comps, targetComponent))
                   IN  here \o
                       Flatten([j \in 1..Len(terminals) |->
                         IF terminals[j].id # targetTerminal
                         THEN CompleteExplored(batteryId, endTerminal, comps, conns,
                                               <<targetComponent, terminals[j].id>>,
                                               newPath, newVisited)
                         ELSE <<>>])
              ELSE here
  IN  Flatten([i \in 1..Len(adjacentNodes) |-> Step(adjacentNodes[i])])

\* every path the two searches build from the positive terminal of a battery
ExploredPaths ==
  Flatten([i \in 1..Len(Batteries) |->
    DirectExplored(Batteries[i].id, "negative", components, connections,
                   <<Batteries[i].id, "positive">>, <<Batteries[i].id>>, <<>>) \o
    CompleteExplored(Batteries[i].id, "negative", components, connections,
                     <<Batteries[i].id, "positive">>, <<Batteries[i].id>>, <<>>)])

\* C27: the validator's short-circuit and open-circuit path enumerations
\* terminate on every finite input, cyclic wiring, several connections on one
\* terminal and duplicate connections included: every path they build takes
\* one more connection than the path before it, out of the finitely many
\* there are, and no path uses a connection twice or has more than 8 hops.
C27_PathSearchBounded ==
  \A k \in 1..Len(vOut) :
    \A p \in Range(ExploredPaths) :
      /\ Len(p.visited) = Len(p.path) - 1
      /\ Range(p.visited) \subseteq { connections[i].id : i \in 1..Len(connections) }
      /\ \A i, j \in 1..Len(p.visited) : i # j => p.visited[i] # p.visited[j]
      /\ Len(p.visited) <= MaxPathLength
      /\ Len(p.visited) <= Len(connections)

\* validateCircuit has run on a loop of more than 8 connections, on a wiring
\* with several connections on one terminal, or on one with a doubled
\* connection, and the searches have built a path that comes back to a
\* component it has left
C27_Witness ==
  /\ Len(vOut) >= 1
  /\ \/ Len(connections) > MaxPathLength
     \/ DoubledPairs # {}
  /\ \E key \in ConnectionKeys : Degree(key) >= 2
  /\ \E p \in Range(ExploredPaths) :
       \E i, j \in 1..Len(p.path) : i # j /\ p.path[i] = p.path[j]

\* C30: in every valid simulate result, each LED's state carries a brightness
\* in [0, 1] that equals min(current / 0.02, 1) when the LED is active and 0
\* otherwise, and the LED's isActive flag is true if and only if its
\* brightness is greater than 0.
C30_LedBrightness ==
  \A k \in 1..Len(sOut) :
    sOut[k].isValid =>
      \A i \in 1..Len(Leds) :
        /\ HasState(sOut[k].componentStates, Leds[i].id)
        /\ LET state == StateOf(sOut[k].componentStates, Leds[i].id)
           IN  /\ "brightness" \in DOMAIN state.additionalProperties
               /\ LET brightness == state.additionalProperties.brightness
                  IN  /\ RLe(Zero, brightness) /\ RLe(brightness, One)
                      /\ state.isActive =>
                           brightness = RMin(RDiv(state.current, <<1, 50>>), One)
                      /\ ~state.isActive => brightness = Zero
                      /\ state.isActive <=> RLt(Zero, brightness)

\* simulate has given one LED a brightness strictly between 0 and 1
C30_Witness ==
  /\ Len(sOut) >= 1
  /\ sOut[1].isValid
  /\ \E i \in 1..Len(Leds) :
       /\ HasState(sOut[1].componentStates, Leds[i].id)
       /\ LET state == StateOf(sOut[1].componentStates, Leds[i].id)
          IN  /\ state.isActive
              /\ RLt(Zero, state.additionalProperties.brightness)
              /\ RLt(state.additionalProperties.brightness, One)

---------------------------------------------------------------------------
(* Properties of the ConnectionManager, under ManagerSpec. *)

\* the stored connections that have a terminal key as an end
StoredAt(key) ==
  { i \in 1..Len(manager.connections) :
      FromKey(manager.connections[i]) = key \/ ToKey(manager.connections[i]) = key }

\* every terminal is an end of at most one stored connection, and its
\* connected flag says whether it is an end of one
TerminalsMatchConnections ==
  \A key \in DOMAIN terminalStatus :
    /\ Cardinality(StoredAt(key)) <= 1
    /\ terminalStatus[key].connected <=> StoredAt(key) # {}

\* C28: after any sequence of startWireDrawing, completeWireDrawing,
\* cancelWireDrawing, removeConnection and clearAllConnections with the same
\* component list, every terminal is an endpoint of at most one stored
\* connection and its connected flag is true if and only if some stored
\* connection uses it; a completeWireDrawing that fails validation returns
\* null, stores no connection, changes no terminal flag and ends the drawing
\* state.
C28_FlagsMatchConnections ==
  [][/\ TerminalsMatchConnections
     /\ TerminalsMatchConnections'
     /\ (returned'.op = "completeWireDrawing" /\ returned'.warning # "") =>
          /\ returned'.connection = NullConnection
          /\ manager'.connections = manager.connections
          /\ terminalStatus' = terminalStatus
          /\ manager'.wireDrawingState = IdleDrawing]_vars

\* a completeWireDrawing has failed validation on a terminal that is in use,
\* after a connection was removed and with a connection stored
C28_Witness ==
  /\ returned.op = "completeWireDrawing"
  /\ returned.warning = "End terminal is already connected"
  /\ Len(manager.connections) >= 1
  /\ drawn > Len(manager.connections)

\* the stored connections between two components, the one just returned apart
SharedBefore(componentId1, componentId2) ==
  { i \in 1..Len(manager.connections) :
      /\ manager.connections[i] # returned.connection
      /\ \/ /\ manager.connections[i].fromComponent = componentId1
            /\ manager.connections[i].toComponent = componentId2
         \/ /\ manager.connections[i].fromComponent = componentId2
            /\ manager.connections[i].toComponent = componentId1 }

\* the call made last was a completeWireDrawing of a started wire between two
\* components that shared a connection
CompletedBetweenConnected ==
  /\ returned.op = "completeWireDrawing"
  /\ returned.startPoint # NoPoint
  /\ returned.startPoint.componentId # returned.endPoint.componentId
  /\ SharedBefore(returned.startPoint.componentId, returned.endPoint.componentId) # {}

\* no two stored connections join the same pair of components
OneConnectionPerPair ==
  \A i, j \in 1..Len(manager.connections) :
    i # j => {manager.connections[i].fromComponent, manager.connections[i].toComponent} #
             {manager.connections[j].fromComponent, manager.connections[j].toComponent}

\* battery positive joined to a resistor's terminal1 and that resistor's
\* terminal2 joined to the battery's negative
TwoComponentLoop ==
  \E b, r \in 1..Len(components) :
    /\ components[b].type = "battery" /\ components[r].type = "resistor"
    /\ \E i, j \in 1..Len(manager.connections) :
         /\ EndpointPair(manager.connections[i]) =
              {<<components[b].id, "positive">>, <<components[r].id, "terminal1">>}
         /\ EndpointPair(manager.connections[j]) =
              {<<components[r].id, "terminal2">>, <<components[b].id, "negative">>}

\* the terminals of the call made last are unconnected and not both outputs
\* or both inputs
FreeAndCompatible ==
  /\ ~terminalStatus[PointKey(returned.startPoint)].connected
  /\ ~terminalStatus[PointKey(returned.endPoint)].connected
  /\ ~(returned.startPoint.terminalType = "output" /\ returned.endPoint.terminalType = "output")
  /\ ~(returned.startPoint.terminalType = "input" /\ returned.endPoint.terminalType = "input")

\* C29 as stated: ConnectionManager never stores two connections between the
\* same pair of components: once two components share a connection, every
\* further completeWireDrawing between them is rejected with 'Components are
\* already connected', so a loop of a battery and a resistor alone is not
\* reachable.
C29_RejectedAsAlreadyConnected ==
  /\ OneConnectionPerPair
  /\ CompletedBetweenConnected =>
       /\ returned.connection = NullConnection
       /\ returned.warning = "Components are already connected"
  /\ ~TwoComponentLoop

\* C29, amended: ConnectionManager never stores two connections between the
\* same pair of components: once two components share a connection, every
\* further completeWireDrawing between them is rejected, with 'Components are
\* already connected' when both terminals are unconnected and their types
\* compatible and with the error of the terminal or type check otherwise, so
\* a loop of a battery and a resistor alone is not reachable.
C29_PairConnectedOnce ==
  /\ OneConnectionPerPair
  /\ CompletedBetweenConnected =>
       /\ returned.connection = NullConnection
       /\ FreeAndCompatible => returned.warning = "Components are already connected"
       /\ ~FreeAndCompatible =>
            returned.warning \in {"Start terminal is already connected",
                                  "End terminal is already connected",
                                  "Cannot connect two output terminals",
                                  "Cannot connect two input terminals"}
  /\ ~TwoComponentLoop

\* a wire between the free terminals of two connected components has been
\* turned down
C29_Witness ==
  /\ CompletedBetweenConnected
  /\ FreeAndCompatible
  /\ returned.connection = NullConnection
  /\ returned.warning = "Components are already connected"

=============================================================================
